---- MODULE Spec2Model ----
(***************************************************************************)
(* A model of the pandoras-box load generator: transaction construction,   *)
(* nonce gathering, multi-threaded signing, batch submission and the       *)
(* cross-chain reconciler (L1 raw-block listener, L2 follower with reorg   *)
(* rollback).  Every subsystem has its own specification over its own      *)
(* variables; the variables of the other subsystems stay at their initial  *)
(* value.                                                                  *)
(***************************************************************************)
EXTENDS Integers, Sequences, FiniteSets, TLC

VARIABLES
    \* ---- Batcher.generateBatches (pure function under test)
    gbItems,        \* the item list handed to generateBatches
    gbSize,         \* the batchSize argument
    gbOut,          \* the value returned, GbNone before the call
    \* ---- EOARuntime / WithdrawalRuntime.ConstructTransactions
    bMode,          \* "EOA" or "WITHDRAWAL": the runtime whose builder runs
    bAccounts,      \* accounts[]: senderAccount objects (nonce is mutated in place)
    bStart,         \* the nonce every account held when construction began
    bNumTx,         \* numTx
    bI,             \* the loop counter i
    bTxs,           \* transactions[][]: one queue per valid account
    bPc,            \* "start", "loop", "done" or "thrown"
    listenerStarted, \* WithdrawalRuntime.listenerStarted (static)
    \* ---- ERC20Runtime.ConstructTransactions
    eAccounts,      \* accounts[]
    eStart,         \* the nonce every account held when construction began
    eNumTx,         \* numTx
    eI,             \* the outer loop counter i (start of the current parallel batch)
    eRes,           \* the settled promises of the current batch: index j -> result
    eTxs,           \* transactions[] (flat)
    ePc,            \* "start", "batch", "done" or "thrown"
    \* ---- Signer.getSenderAccounts
    nodeNonce,      \* the node: address -> transaction count under "latest"
    nIndexes,       \* accountIndexes
    nNumTxs,        \* numTxs
    nI,             \* the wave loop counter i
    nRes,           \* the settled promises of the current wave: position -> entry
    walletData,     \* walletData[]
    nAccounts,      \* the sender accounts returned
    nPc,            \* "wave", "done" or "thrown"
    \* ---- Signer.signTransactionsMultiThreaded and the signing workers
    sAccounts,      \* accounts[]
    sTxs,           \* transactions[] (flat)
    sNumWorkers,    \* numWorkers (0: not given)
    sCpu,           \* os.cpus().length
    sBatches,       \* workerBatches[]
    sResults,       \* per worker promise: SignPending, SignFailed or the slice it resolved to
    sOut,           \* the list returned
    sPc,            \* "start", "signing", "done", "thrown" or "submitted"
    \* ---- Batcher.batchTransactions
    qQueues,        \* signedTxsByAccount: one queue of signed transactions per sender
    qBatchSize,     \* batchSize
    qConc,          \* _concurrency (0: not given)
    allBatches,     \* allBatches[worker][batch][position]
    wNext,          \* per worker: the batch whose POST is in flight (Len + 1: finished)
    txHashes,       \* txHashes[]
    batchErrors,    \* batchErrors[]
    posted,         \* per worker, the outcomes of the POSTs it has awaited
    qPc,            \* "start", "running" or "returned"
    \* ---- the cross-chain reconciler
    rTransactions,  \* opts.transactions: the values of the run's withdrawals
    rPc,            \* startCrossChainListeners: "start", "started" or "failed"
    blocks,         \* every L2 block ever produced; a block's hash is its index
    canon,          \* the node's chain: canon[h + 1] is the hash at height h
    cBudget,        \* blocks and reorgs the chain may still produce
    latestTarget,   \* follower: latestTarget
    pumping,        \* follower: pumping
    lastProcessed,  \* follower: lastProcessed
    lastHash,       \* follower: lastHash
    fPc,            \* follower: "off", "init1", "init2", "idle", "fetch", "prev", "receipt", "dead"
    fBlock,         \* pump: block (the fetched block while its receipts are read)
    fTodo,          \* pump: the moat transactions of block still to look up
    txsToUpsert,    \* pump: txsToUpsert
    nRollbacks,     \* history: rollbacks the pump has made
    l2_headers,     \* table l2_headers: height -> [hash, timestamp]
    txs,            \* table txs: uid -> row
    l1_headers,     \* table l1_headers: height -> hash
    l1Pc,           \* L1 listener: "off", "listening" or "failed"
    l1Log,          \* the raw-block messages the L1 listener has received
    parsedTxs       \* L1 listener: parsedTxs of the message handled last

VARIABLES
    \* ---- StatCollector.generateStats / gatherTransactionReceipts
    stBlocks,       \* the node: stBlocks[h] is the list of hashes in the block at height h
    stPool,         \* the node: hashes accepted and not yet included in a block
    stNow,          \* Date.now(), in milliseconds
    scTxHashes,     \* txHashes, the hashes the submitter got back
    scStartBlock,   \* startBlock
    blockNumber,    \* the height the scan fetches next
    succeededTransactions,  \* the txStats recorded so far
    waitStartTime,  \* 0, or the time a missing block started the wait
    pendingTxCount, \* the count read at the start of the current iteration
    scErrors,       \* whether errors holds a message (errors.length > 0)
    scPc,           \* "idle", "top", "fetch", "done", "returned"
    scExit,         \* which break left the loop: "none", "complete", "timeout"
    missingSince    \* 0, or the time the block now waited for was first found missing

VARIABLES
    \* ---- ClearPendingRuntime.run
    cpNumAccounts,  \* numAccounts
    cpConcurrency,  \* the concurrency given to the constructor
    ndPending,      \* the node: transaction count "pending" of each account
    ndLatest,       \* the node: transaction count "latest" of each account
    cpI,            \* first account index of the current wave
    cpPc,           \* run: "idle", "feeData", "wave", "done", "failed"
    accPc,          \* per account: "waiting", "pending", "latest", "sending", "done"
    pendingNonce,   \* per account: the pending count read, Null before
    latestNonce,    \* per account: the latest count read, Null before
    nonceToClear,   \* per account: the nonce of the send in flight
    cpSent,         \* per account: the nonces of the self-transfers sent
    cpSendFailed,   \* per account: a send raised an error
    clearedCount    \* clearedCount

VARIABLES
    \* ---- Distributor.distribute
    requestedSubAccounts,   \* requestedSubAccounts
    dConcurrency,   \* concurrency as parsed by the constructor (0: not given)
    balanceOutcome, \* the node: how the balance query of each sub-account ends
    funderBalance,  \* the node: the funder's balance, in thousandths of an ether
    funderNonce,    \* the node: the funder's transaction count
    dPc,            \* "idle", "balances", "funderBalance", "nonce", "funding", "returned", "failed"
    dError,         \* the error distribute rejected with, "" while none
    dI,             \* first position of the current wave (balance wave, then funding wave)
    readyMnemonicIndexes,   \* readyMnemonicIndexes
    shortAddresses, \* the heap of accounts that need funds, as the heap's array
    accountsToFund, \* the list getFundableAccounts returned
    currentNonce,   \* currentNonce of fundAccounts
    transfer,       \* per position of accountsToFund: "waiting", "sending", "confirming", "ok", "failed"
    assignedNonce,  \* per position of accountsToFund: the nonce its transfer was sent with
    successfulIndexes       \* successfulIndexes

VARIABLES
    \* ---- the value field of two transactions of one withdrawal construction
    wvAccounts,     \* validAccounts.length
    wvI,            \* index of one transaction of the loop
    wvJ,            \* index of another transaction of the same loop
    wvValues        \* <<>>, or the value fields of transactions wvI and wvJ

VARIABLES
    \* ---- Signer.getSenderAccounts: the number of nonce queries in flight
    nwConcurrency,  \* ctx.concurrency of the run
    nwWallets,      \* wallets.length (walletsToInit)
    nwI,            \* the loop variable i of the wave loop
    nwPending,      \* nonce queries of the current wave that have not settled
    nwPc            \* "idle", "wave", "delay" or "done"

VARIABLES
    \* ---- run(): the phases of one EOA or ERC-20 run
    runMode,            \* "EOA" or "ERC20"
    runNumTxs,          \* transactionCount
    runPc,              \* the await the run is at
    accountIndexes,     \* the result of distributor.distribute()
    tokenReadyIndexes,  \* TokenDistributor.readyMnemonicIndexes
    engineAccounts,     \* the mnemonic indexes of Engine.Run's sender accounts
    startBlock,         \* the scan start height, Null before it is read
    runHead,            \* the node's block height
    runConstructed,     \* the transactions constructed
    runSigned,          \* the transactions signed
    runSubmitted,       \* the transactions sent to the node
    runMined            \* per transaction the height of its block, 0 while not mined

varsGb == <<gbItems, gbSize, gbOut>>

varsBuild == <<bMode, bAccounts, bStart, bNumTx, bI, bTxs, bPc, listenerStarted>>

varsErc == <<eAccounts, eStart, eNumTx, eI, eRes, eTxs, ePc>>

varsNonce == <<nodeNonce, nIndexes, nNumTxs, nI, nRes, walletData, nAccounts, nPc>>

varsSign == <<sAccounts, sTxs, sNumWorkers, sCpu, sBatches, sResults, sOut, sPc>>

varsSubmit == <<qQueues, qBatchSize, qConc, allBatches, wNext, txHashes, batchErrors, posted, qPc>>

varsRecon == <<rTransactions, rPc, blocks, canon, cBudget, latestTarget, pumping, lastProcessed,
               lastHash, fPc, fBlock, fTodo, txsToUpsert, nRollbacks, l2_headers, txs,
               l1_headers, l1Pc, l1Log, parsedTxs>>

varsStats == <<stBlocks, stPool, stNow, scTxHashes, scStartBlock, blockNumber,
               succeededTransactions, waitStartTime, pendingTxCount, scErrors, scPc, scExit,
               missingSince>>

varsClear == <<cpNumAccounts, cpConcurrency, ndPending, ndLatest, cpI, cpPc, accPc, pendingNonce,
               latestNonce, nonceToClear, cpSent, cpSendFailed, clearedCount>>

varsDist == <<requestedSubAccounts, dConcurrency, balanceOutcome, funderBalance, funderNonce, dPc,
              dError, dI, readyMnemonicIndexes, shortAddresses, accountsToFund, currentNonce,
              transfer, assignedNonce, successfulIndexes>>

varsWv == <<wvAccounts, wvI, wvJ, wvValues>>

varsNw == <<nwConcurrency, nwWallets, nwI, nwPending, nwPc>>

varsRun == <<runMode, runNumTxs, runPc, accountIndexes, tokenReadyIndexes, engineAccounts,
             startBlock, runHead, runConstructed, runSigned, runSubmitted, runMined>>

vars == <<varsGb, varsBuild, varsErc, varsNonce, varsSign, varsSubmit, varsRecon, varsStats, varsClear, varsDist, varsWv, varsNw, varsRun>>

\* the variables outside each subsystem
NotGb == <<varsBuild, varsErc, varsNonce, varsSign, varsSubmit, varsRecon, varsStats, varsClear, varsDist, varsWv, varsNw, varsRun>>

NotBuild == <<varsGb, varsErc, varsNonce, varsSign, varsSubmit, varsRecon, varsStats, varsClear, varsDist, varsWv, varsNw, varsRun>>

NotErc == <<varsGb, varsBuild, varsNonce, varsSign, varsSubmit, varsRecon, varsStats, varsClear, varsDist, varsWv, varsNw, varsRun>>

NotNonce == <<varsGb, varsBuild, varsErc, varsSign, varsSubmit, varsRecon, varsStats, varsClear, varsDist, varsWv, varsNw, varsRun>>

NotSign == <<varsGb, varsBuild, varsErc, varsNonce, varsSubmit, varsRecon, varsStats, varsClear, varsDist, varsWv, varsNw, varsRun>>

NotSubmit == <<varsGb, varsBuild, varsErc, varsNonce, varsSign, varsRecon, varsStats, varsClear, varsDist, varsWv, varsNw, varsRun>>

NotRecon == <<varsGb, varsBuild, varsErc, varsNonce, varsSign, varsSubmit, varsStats, varsClear, varsDist, varsWv, varsNw, varsRun>>

NotStats == <<varsGb, varsBuild, varsErc, varsNonce, varsSign, varsSubmit, varsRecon, varsClear, varsDist, varsWv, varsNw, varsRun>>

NotClear == <<varsGb, varsBuild, varsErc, varsNonce, varsSign, varsSubmit, varsRecon, varsStats, varsDist, varsWv, varsNw, varsRun>>

NotDist == <<varsGb, varsBuild, varsErc, varsNonce, varsSign, varsSubmit, varsRecon, varsStats, varsClear, varsWv, varsNw, varsRun>>

NotWv == <<varsGb, varsBuild, varsErc, varsNonce, varsSign, varsSubmit, varsRecon, varsStats, varsClear, varsDist, varsNw, varsRun>>

NotNw == <<varsGb, varsBuild, varsErc, varsNonce, varsSign, varsSubmit, varsRecon, varsStats, varsClear, varsDist, varsWv, varsRun>>

NotRun == <<varsGb, varsBuild, varsErc, varsNonce, varsSign, varsSubmit, varsRecon, varsStats, varsClear, varsDist, varsWv, varsNw>>

(***************************************************************************)
(* Small helpers.                                                          *)
(***************************************************************************)
Min(a, b) == IF a < b THEN a ELSE b

Max(a, b) == IF a > b THEN a ELSE b

\* Math.ceil(a / b) for a >= 0, b > 0
CeilDiv(a, b) == (a + b - 1) \div b

RECURSIVE Flatten(_)
Flatten(ss) == IF ss = <<>> THEN <<>> ELSE Head(ss) \o Flatten(Tail(ss))

RECURSIVE SumLen(_)
SumLen(ss) == IF ss = <<>> THEN 0 ELSE Len(Head(ss)) + SumLen(Tail(ss))

\* all sequences over S of length 0..n
SeqsUpTo(S, n) == UNION {[1..k -> S] : k \in 0..n}

(***************************************************************************)
(* Batcher.generateBatches                                                 *)
(***************************************************************************)
MaxItems == 4
MaxBatchSize == 3

GbNone == [status |-> "none", batches |-> <<>>]

\* items.slice(i, i + batchSize) for 0 <= i < items.length and batchSize > 0
Slice(items, i, j) == SubSeq(items, i + 1, Min(j, Len(items)))

\* for (let i = 0; i < items.length; i += batchSize) batches.push(items.slice(i, i + batchSize))
\* A step that does not advance i while i < items.length never leaves the loop.
RECURSIVE GenLoop(_, _, _, _)
GenLoop(items, batchSize, i, batches) ==
    IF ~(i < Len(items)) THEN [status |-> "returned", batches |-> batches]
    ELSE IF batchSize <= 0 THEN [status |-> "diverges", batches |-> batches]
    ELSE GenLoop(items, batchSize, i + batchSize,
                 Append(batches, Slice(items, i, i + batchSize)))

generateBatchesNoGuard(items, batchSize) == GenLoop(items, batchSize, 0, <<>>)

generateBatchesShortLast(items, batchSize) ==
    IF batchSize <= 0 THEN [status |-> "returned", batches |-> <<>>]
    ELSE GenLoop(SubSeq(items, 1, (Len(items) \div batchSize) * batchSize), batchSize, 0, <<>>)

generateBatches(items, batchSize) ==
    IF batchSize <= 0 THEN [status |-> "returned", batches |-> <<>>]
    ELSE GenLoop(items, batchSize, 0, <<>>)

InitGb ==
    /\ gbItems \in SeqsUpTo(1..2, MaxItems)
    /\ gbSize \in (-1)..MaxBatchSize
    /\ gbOut = GbNone

IdleGb ==
    /\ gbItems = <<>>
    /\ gbSize = 1
    /\ gbOut = GbNone

CallGenerateBatches ==
    /\ gbOut = GbNone
    /\ gbOut' = generateBatches(gbItems, gbSize)
    /\ UNCHANGED <<gbItems, gbSize>>
    /\ UNCHANGED NotGb

NextBatches == CallGenerateBatches

\* C6: for batchSize >= 1 the result is a partition of the input into contiguous
\* runs whose concatenation is the input; no run is empty, every run but the last
\* has exactly batchSize items, the last at most batchSize, and there are
\* ceil(|items| / batchSize) runs (none for an empty input).
C6_Partition ==
    (gbOut.status # "none" /\ gbSize >= 1) =>
        /\ gbOut.status = "returned"
        /\ Flatten(gbOut.batches) = gbItems
        /\ Len(gbOut.batches) = CeilDiv(Len(gbItems), gbSize)
        /\ \A k \in 1..Len(gbOut.batches) :
              /\ Len(gbOut.batches[k]) >= 1
              /\ Len(gbOut.batches[k]) <= gbSize
              /\ (k < Len(gbOut.batches) => Len(gbOut.batches[k]) = gbSize)

C6_Witness ==
    /\ gbOut.status = "returned"
    /\ gbSize = 3
    /\ Len(gbItems) = 4
    /\ Len(gbOut.batches) = 2
    /\ Len(gbOut.batches[2]) = 1

\* C7: with a batch size of 0 or less generateBatches returns the empty list, for
\* every item list, and it returns (the loop is never entered).
C7_NonPositiveSize ==
    (gbOut.status # "none" /\ gbSize <= 0) =>
        (gbOut.status = "returned" /\ gbOut.batches = <<>>)

C7_Witness ==
    /\ gbOut.status = "returned"
    /\ gbSize = 0
    /\ Len(gbItems) = MaxItems
    /\ gbOut.batches = <<>>

(***************************************************************************)
(* Amounts in wei.  A wei amount is kept as q * 10^10 + r with 0 <= r <    *)
(* 10^10, so that the withdrawal values (about 10^18) and their division   *)
(* by 1e10 stay within TLC's 32-bit integers.                              *)
(***************************************************************************)
Wei(q, r) == [q |-> q, r |-> r]

\* BigNumber.from(n).mul(1e10)
MulE10(n) == Wei(n, 0)

\* a - b for a >= b with b a multiple of 10^10
WeiSub(a, b) == Wei(a.q - b.q, a.r)

\* BigInt division by BigInt(1e10): truncates
WeiDivE10(a) == a.q

(***************************************************************************)
(* senderAccount (signer.ts) and the EOA / withdrawal builders.            *)
(***************************************************************************)
MaxAccounts == 2
MaxNonce == 2
MaxTx == 4

\* an undefined / null entry of accounts[]
NullAcc == [mnemonicIndex |-> -1, nonce |-> 0]

senderAccount(mnemonicIndex, nonce) == [mnemonicIndex |-> mnemonicIndex, nonce |-> nonce]

getNonce(acc) == acc.nonce

getAddress(acc) == acc.mnemonicIndex

incrNonceStuck(acc) == acc

incrNonce(acc) == [acc EXCEPT !.nonce = acc.nonce + 1]

\* the address of the moat contract, distinct from every account address
MoatAddress == 1000

\* EOARuntime.defaultValue = 1 wei; WithdrawalRuntime.defaultValue = 110000000
EoaDefaultValue == 1
WithdrawDefaultValue == 110000000
SenderStride == 100000

\* positions (1-based) of the entries of accounts[] kept by the filter
RECURSIVE ValidPositions(_, _)
ValidPositions(accounts, k) ==
    IF k > Len(accounts) THEN <<>>
    ELSE (IF accounts[k] # NullAcc THEN <<k>> ELSE <<>>) \o ValidPositions(accounts, k + 1)

validAccounts(accounts) == [k \in 1..Len(ValidPositions(accounts, 1)) |->
                               accounts[ValidPositions(accounts, 1)[k]]]

\* a transfer whose receiver is its own sender
EoaTxToSelf(valid, i) ==
    LET senderIndex == i % Len(valid)
    IN  [from |-> getAddress(valid[senderIndex + 1]),
         to |-> getAddress(valid[senderIndex + 1]),
         value |-> Wei(0, EoaDefaultValue),
         nonce |-> getNonce(valid[senderIndex + 1])]

\* the TxSpec pushed in iteration i (0-based) of the EOA loop
EoaTx(valid, i) ==
    LET senderIndex == i % Len(valid)
        receiverIndex == (i + 1) % Len(valid)
    IN  [from |-> getAddress(valid[senderIndex + 1]),
         to |-> getAddress(valid[receiverIndex + 1]),
         value |-> Wei(0, EoaDefaultValue),
         nonce |-> getNonce(valid[senderIndex + 1])]

\* this.defaultValue.add(BigNumber.from(senderIndex * 1e5 + i)).mul(1e10)
withdrawalValue(senderIndex, i) ==
    MulE10(WithdrawDefaultValue + (senderIndex * SenderStride + i))

\* the TxSpec pushed in iteration i (0-based) of the withdrawal loop
WithdrawalTx(valid, i) ==
    LET senderIndex == i % Len(valid)
    IN  [from |-> getAddress(valid[senderIndex + 1]),
         to |-> MoatAddress,
         value |-> withdrawalValue(senderIndex, i),
         nonce |-> getNonce(valid[senderIndex + 1])]

AccountChoices == {NullAcc} \cup {senderAccount(0, n) : n \in 0..MaxNonce}

InitBuild ==
    /\ bMode \in {"EOA", "WITHDRAWAL"}
    /\ \E n \in 0..MaxAccounts :
          \E f \in [1..n -> AccountChoices] :
             bAccounts = [k \in 1..n |->
                            IF f[k] = NullAcc THEN NullAcc
                            ELSE senderAccount(k, f[k].nonce)]
    /\ bStart = [k \in 1..Len(bAccounts) |-> bAccounts[k].nonce]
    /\ bNumTx \in 0..MaxTx
    /\ bI = 0
    /\ bTxs = <<>>
    /\ bPc = "start"
    /\ listenerStarted = FALSE

IdleBuild ==
    /\ bMode = "EOA"
    /\ bAccounts = <<>>
    /\ bStart = <<>>
    /\ bNumTx = 0
    /\ bI = 0
    /\ bTxs = <<>>
    /\ bPc = "idle"
    /\ listenerStarted = FALSE

\* The validation of accounts[] and the RPC reads before the loop (chain id, and
\* for a withdrawal the gas estimate): an empty or all-invalid accounts[] throws.
ConstructStart ==
    /\ bPc = "start"
    /\ IF Len(bAccounts) = 0 \/ Len(validAccounts(bAccounts)) = 0
       THEN bPc' = "thrown" /\ bTxs' = bTxs
       ELSE /\ bPc' = "loop"
            /\ bTxs' = [k \in 1..Len(validAccounts(bAccounts)) |-> <<>>]
    /\ UNCHANGED <<bMode, bAccounts, bStart, bNumTx, bI, listenerStarted>>
    /\ UNCHANGED NotBuild

\* an RPC read before the loop fails: the builder throws
ConstructRpcFails ==
    /\ bPc = "start"
    /\ Len(validAccounts(bAccounts)) > 0
    /\ bPc' = "thrown"
    /\ UNCHANGED <<bMode, bAccounts, bStart, bNumTx, bI, bTxs, listenerStarted>>
    /\ UNCHANGED NotBuild

\* one iteration of for (let i = 0; i < numTx; i++)
ConstructStep ==
    /\ bPc = "loop"
    /\ bI < bNumTx
    /\ LET valid == validAccounts(bAccounts)
           senderIndex == bI % Len(valid)
           pos == ValidPositions(bAccounts, 1)[senderIndex + 1]
           tx == IF bMode = "EOA" THEN EoaTx(valid, bI) ELSE WithdrawalTx(valid, bI)
       IN  /\ bTxs' = [bTxs EXCEPT ![senderIndex + 1] = Append(@, tx)]
           /\ bAccounts' = [bAccounts EXCEPT ![pos] = incrNonce(@)]
    /\ bI' = bI + 1
    /\ UNCHANGED <<bMode, bStart, bNumTx, bPc, listenerStarted>>
    /\ UNCHANGED NotBuild

\* the loop ends; the withdrawal builder starts the cross-chain listeners once
ConstructReturn ==
    /\ bPc = "loop"
    /\ ~(bI < bNumTx)
    /\ bPc' = "done"
    /\ listenerStarted' = (listenerStarted \/ bMode = "WITHDRAWAL")
    /\ UNCHANGED <<bMode, bAccounts, bStart, bNumTx, bI, bTxs>>
    /\ UNCHANGED NotBuild

NextBuild ==
    \/ ConstructStart
    \/ ConstructRpcFails
    \/ ConstructStep
    \/ ConstructReturn

\* C1: when EOARuntime / WithdrawalRuntime.ConstructTransactions has returned, the
\* nonces of every sender's queue, in queue order, start at the nonce the account
\* held when construction began and go up by exactly 1, and the account's nonce is
\* its initial nonce plus the length of its queue.
C1_ContiguousNonces ==
    bPc = "done" =>
        \A k \in 1..Len(bTxs) :
            LET pos == ValidPositions(bAccounts, 1)[k]
            IN  /\ \A p \in 1..Len(bTxs[k]) : bTxs[k][p].nonce = bStart[pos] + (p - 1)
                /\ bAccounts[pos].nonce = bStart[pos] + Len(bTxs[k])

C1_Witness ==
    /\ bPc = "done"
    /\ bMode = "WITHDRAWAL"
    /\ Len(bTxs) = 2
    /\ Len(bTxs[1]) = 2
    /\ bStart[ValidPositions(bAccounts, 1)[1]] = 2
    /\ bTxs[1][2].nonce = 3

\* C22: when EOARuntime.ConstructTransactions has returned for N valid accounts
\* and numTx transactions, there are N queues whose lengths sum to numTx; the
\* p-th transaction of queue k is transaction i = (p - 1) * N + (k - 1), sent from
\* valid account i mod N to valid account (i + 1) mod N; queue k has length
\* floor(numTx / N), plus one for the first numTx mod N senders.
C22_RoundRobin ==
    (bPc = "done" /\ bMode = "EOA") =>
        LET valid == validAccounts(bAccounts)
            N == Len(valid)
        IN  /\ Len(bTxs) = N
            /\ SumLen(bTxs) = bNumTx
            /\ \A k \in 1..N :
                  /\ Len(bTxs[k]) = (bNumTx \div N) + (IF k - 1 < bNumTx % N THEN 1 ELSE 0)
                  /\ \A p \in 1..Len(bTxs[k]) :
                        LET i == (p - 1) * N + (k - 1)
                        IN  /\ i < bNumTx
                            /\ bTxs[k][p].from = getAddress(valid[(i % N) + 1])
                            /\ bTxs[k][p].from = getAddress(valid[k])
                            /\ bTxs[k][p].to = getAddress(valid[((i + 1) % N) + 1])

\* two senders and an odd number of transfers: the first queue is the longer one
C22_Witness ==
    /\ bPc = "done"
    /\ bMode = "EOA"
    /\ Len(bTxs) = 2
    /\ bNumTx = 3
    /\ Len(bTxs[1]) = 2
    /\ Len(bTxs[2]) = 1

(***************************************************************************)
(* ERC20Runtime.ConstructTransactions: transactions are populated in       *)
(* parallel batches; the nonces are incremented after a batch has settled. *)
(***************************************************************************)
ErcBatchSize == 50

\* the address of the deployed token contract
TokenAddress == 2000

ErcPending == [index |-> -1, success |-> FALSE, from |-> -1, nonce |-> -1, receiver |-> -1]

\* the indexes j of the batch that starts at i
ErcBatch(i, numTx) == i..(Min(i + ErcBatchSize, numTx) - 1)

\* the value the promise of transaction j resolves to
ErcResult(accounts, j, ok) ==
    LET sender == accounts[(j % Len(accounts)) + 1]
        receiver == accounts[((j + 1) % Len(accounts)) + 1]
    IN  IF ok
        THEN [index |-> j, success |-> TRUE, from |-> getAddress(sender),
              nonce |-> getNonce(sender), receiver |-> getAddress(receiver)]
        ELSE [index |-> j, success |-> FALSE, from |-> getAddress(sender),
              nonce |-> -1, receiver |-> -1]

\* batchResults.sort(by index).forEach(push the transaction, incrNonce the sender),
\* for the results with index j .. last
RECURSIVE ErcApply(_, _, _, _, _)
ErcApply(res, j, last, built, accounts) ==
    IF j > last THEN [txs |-> built, accounts |-> accounts]
    ELSE IF res[j].success
    THEN ErcApply(res, j + 1, last,
                  Append(built, [from |-> res[j].from, to |-> TokenAddress,
                               receiver |-> res[j].receiver, nonce |-> res[j].nonce]),
                  [accounts EXCEPT ![(j % Len(accounts)) + 1] = incrNonce(@)])
    ELSE ErcApply(res, j + 1, last, built, accounts)

InitErc ==
    /\ \E n \in 1..MaxAccounts :
          \E f \in [1..n -> 0..MaxNonce] :
             eAccounts = [k \in 1..n |-> senderAccount(k, f[k])]
    /\ eStart = [k \in 1..Len(eAccounts) |-> eAccounts[k].nonce]
    /\ eNumTx \in 0..MaxTx
    /\ eI = 0
    /\ eRes = <<>>
    /\ eTxs = <<>>
    /\ ePc = "start"

IdleErc ==
    /\ eAccounts = <<>>
    /\ eStart = <<>>
    /\ eNumTx = 0
    /\ eI = 0
    /\ eRes = <<>>
    /\ eTxs = <<>>
    /\ ePc = "idle"

\* the contract check and the chain id read; then the first batch of promises is
\* created (or the loop is skipped when numTx = 0)
ErcStart ==
    /\ ePc = "start"
    /\ \E ok \in BOOLEAN :
          IF ~ok THEN ePc' = "thrown" /\ eRes' = eRes
          ELSE IF eNumTx = 0 THEN ePc' = "done" /\ eRes' = eRes
          ELSE /\ ePc' = "batch"
               /\ eRes' = [j \in ErcBatch(0, eNumTx) |-> ErcPending]
    /\ UNCHANGED <<eAccounts, eStart, eNumTx, eI, eTxs>>
    /\ UNCHANGED NotErc

\* populateTransaction.transfer of transaction j resolves or rejects; the promise
\* then reads sender.getNonce()
ErcPopulate ==
    /\ ePc = "batch"
    /\ \E j \in DOMAIN eRes :
          /\ eRes[j] = ErcPending
          /\ \E ok \in BOOLEAN :
                eRes' = [eRes EXCEPT ![j] = ErcResult(eAccounts, j, ok)]
    /\ UNCHANGED <<eAccounts, eStart, eNumTx, eI, eTxs, ePc>>
    /\ UNCHANGED NotErc

\* Promise.all of the batch resolves: results are pushed in index order and the
\* nonces incremented; the next batch of promises is created, or the builder returns
ErcBatchSettle ==
    /\ ePc = "batch"
    /\ \A j \in DOMAIN eRes : eRes[j] # ErcPending
    /\ LET last == Min(eI + ErcBatchSize, eNumTx) - 1
           out == ErcApply(eRes, eI, last, eTxs, eAccounts)
       IN  /\ eTxs' = out.txs
           /\ eAccounts' = out.accounts
    /\ eI' = eI + ErcBatchSize
    /\ IF eI' < eNumTx
       THEN ePc' = "batch" /\ eRes' = [j \in ErcBatch(eI', eNumTx) |-> ErcPending]
       ELSE ePc' = "done" /\ eRes' = <<>>
    /\ UNCHANGED <<eStart, eNumTx>>
    /\ UNCHANGED NotErc

NextErc ==
    \/ ErcStart
    \/ ErcPopulate
    \/ ErcBatchSettle

\* the positions of the entries of list whose sender is addr, in list order
SenderNonces(list, addr) ==
    LET own == SelectSeq(list, LAMBDA t : t.from = addr)
    IN  [p \in 1..Len(own) |-> own[p].nonce]

\* C3: in ERC20Runtime.ConstructTransactions no two constructed transactions of the
\* same sender carry the same nonce, and every sender's nonces are a strictly
\* increasing run from its starting nonce - also with fewer accounts than the
\* parallel batch of 50.
C3_DistinctNonces ==
    ePc = "done" =>
        \A k \in 1..Len(eAccounts) :
            LET ns == SenderNonces(eTxs, getAddress(eAccounts[k]))
            IN  /\ \A p, q \in 1..Len(ns) : p < q => ns[p] < ns[q]
                /\ (Len(ns) > 0 => ns[1] = eStart[k])

(***************************************************************************)
(* Signer.getSenderAccounts: the starting nonces are read from the node in *)
(* waves of 50 queries.                                                    *)
(***************************************************************************)
NonceBatchSize == 50
MaxIndexes == 3

NoncePending == [accIndex |-> -1, accountNonce |-> -1]

\* wallet.getTransactionCount() resolved (the node's count) or rejected (the catch
\* returns the entry with nonce 0)
NonceEntry(accIndex, ok, node) ==
    [accIndex |-> accIndex, accountNonce |-> IF ok THEN node[accIndex] ELSE 0]

\* the wallets created: accountIndexes.slice(0, walletsToInit)
walletsToInit(indexes, numTxs) == IF Len(indexes) > numTxs THEN numTxs ELSE Len(indexes)

\* every wallet that is left, in one wave
NonceWaveAll(i, n) == (i + 1)..n

\* batch = wallets.slice(i, i + batchSize)
NonceWave(i, n) == (i + 1)..Min(i + NonceBatchSize, n)

InitNonce ==
    /\ nodeNonce \in [1..MaxIndexes -> 0..MaxNonce]
    /\ \E n \in 0..MaxIndexes : nIndexes = [k \in 1..n |-> k]
    /\ nNumTxs \in 0..MaxTx
    /\ nI = 0
    /\ nRes = [k \in NonceWave(0, walletsToInit(nIndexes, nNumTxs)) |-> NoncePending]
    /\ walletData = <<>>
    /\ nAccounts = <<>>
    /\ nPc = "wave"

IdleNonce ==
    /\ nodeNonce = <<>>
    /\ nIndexes = <<>>
    /\ nNumTxs = 0
    /\ nI = 0
    /\ nRes = <<>>
    /\ walletData = <<>>
    /\ nAccounts = <<>>
    /\ nPc = "idle"

\* one nonce query of the current wave settles
NonceQuerySettles ==
    /\ nPc = "wave"
    /\ \E k \in DOMAIN nRes :
          /\ nRes[k] = NoncePending
          /\ \E ok \in BOOLEAN :
                nRes' = [nRes EXCEPT ![k] = NonceEntry(nIndexes[k], ok, nodeNonce)]
    /\ UNCHANGED <<nodeNonce, nIndexes, nNumTxs, nI, walletData, nAccounts, nPc>>
    /\ UNCHANGED NotNonce

\* Promise.all of the wave resolves: its entries are appended to walletData; after
\* the last wave the sender accounts are created (none at all throws)
NonceWaveSettles ==
    /\ nPc = "wave"
    /\ \A k \in DOMAIN nRes : nRes[k] # NoncePending
    /\ LET n == walletsToInit(nIndexes, nNumTxs)
           data == walletData \o [k \in 1..(Min(nI + NonceBatchSize, n) - nI) |-> nRes[nI + k]]
       IN  /\ walletData' = data
           /\ nI' = nI + NonceBatchSize
           /\ IF nI' < n
              THEN /\ nPc' = "wave"
                   /\ nRes' = [k \in NonceWave(nI', n) |-> NoncePending]
                   /\ nAccounts' = nAccounts
              ELSE /\ nRes' = <<>>
                   /\ nAccounts' = [k \in 1..Len(data) |->
                                      senderAccount(data[k].accIndex, data[k].accountNonce)]
                   /\ nPc' = IF Len(data) = 0 THEN "thrown" ELSE "done"
    /\ UNCHANGED <<nodeNonce, nIndexes, nNumTxs>>
    /\ UNCHANGED NotNonce

NextNonce ==
    \/ NonceQuerySettles
    \/ NonceWaveSettles

\* C4: every sender account returned by getSenderAccounts starts with the nonce the
\* node reports for its address; a failed nonce query never yields an account
\* whose starting nonce differs from the node's value.
C4_StartsAtNodeNonce ==
    nPc = "done" =>
        \A k \in 1..Len(nAccounts) :
            nAccounts[k].nonce = nodeNonce[nAccounts[k].mnemonicIndex]

(***************************************************************************)
(* Signer.signTransactionsMultiThreaded and the signing worker             *)
(* (signing-worker.ts).                                                    *)
(***************************************************************************)
MaxSignTx == 4
MaxWorkers == 3
MaxCpu == 2

SignPending == <<[originalIndex |-> -1, signedTx |-> [tx |-> -1, key |-> -1]]>>

\* the promise of a worker that posted {success: false} or raised an error
SignFailed == <<[originalIndex |-> -2, signedTx |-> [tx |-> -2, key |-> -2]]>>

\* wallet.signTransaction(tx) with the wallet derived for accountIndex
SignedTx(tx, accountIndex) == [tx |-> tx, key |-> accountIndex]

\* numWorkers || Math.max(1, Math.min(cpuCores, transactions.length))
workerCount(numWorkers, cpuCores, n) ==
    IF numWorkers # 0 THEN numWorkers ELSE Max(1, Min(cpuCores, n))

\* the slice handed to worker i (0-based): transactions, account indexes, startIndex
WorkerBatch(accounts, transactions, batchSize, i) ==
    LET start == i * batchSize
        end == Min(start + batchSize, Len(transactions))
    IN  [transactions |-> [k \in 1..(end - start) |-> transactions[start + k]],
         accountIndexes |-> [k \in 1..(end - start) |->
                               accounts[((start + k - 1) % Len(accounts)) + 1].mnemonicIndex],
         startIndex |-> start]

\* the loop that builds workerBatches: a worker whose start is past the end gets none
RECURSIVE WorkerBatches(_, _, _, _, _)
WorkerBatches(accounts, transactions, batchSize, count, i) ==
    IF i >= count THEN <<>>
    ELSE (IF i * batchSize < Len(transactions)
          THEN <<WorkerBatch(accounts, transactions, batchSize, i)>> ELSE <<>>)
         \o WorkerBatches(accounts, transactions, batchSize, count, i + 1)

\* the worker's message handler without the start index: originalIndex = i
SignSliceLocalIndex(batch) ==
    [i \in 1..Len(batch.transactions) |->
        [originalIndex |-> i - 1,
         signedTx |-> SignedTx(batch.transactions[i], batch.accountIndexes[i])]]

\* the worker's message handler: signs its slice in order, originalIndex = startIndex + i
SignSlice(batch) ==
    [i \in 1..Len(batch.transactions) |->
        [originalIndex |-> batch.startIndex + (i - 1),
         signedTx |-> SignedTx(batch.transactions[i], batch.accountIndexes[i])]]

\* insert x into the sorted list xs behind every element that is not greater (stable)
RECURSIVE InsertByIndex(_, _)
InsertByIndex(xs, x) ==
    IF xs = <<>> THEN <<x>>
    ELSE IF Head(xs).originalIndex <= x.originalIndex
         THEN <<Head(xs)>> \o InsertByIndex(Tail(xs), x)
         ELSE <<x>> \o xs

\* Array.prototype.sort((a, b) => a.originalIndex - b.originalIndex), a stable sort
RECURSIVE SortByIndex(_)
SortByIndex(xs) ==
    IF xs = <<>> THEN <<>>
    ELSE InsertByIndex(SortByIndex(SubSeq(xs, 1, Len(xs) - 1)), xs[Len(xs)])

InitSign ==
    /\ \E n \in 1..MaxAccounts : sAccounts = [k \in 1..n |-> senderAccount(k + 10, 0)]
    /\ sTxs \in SeqsUpTo(1..2, MaxSignTx)
    /\ sNumWorkers \in 0..MaxWorkers
    /\ sCpu \in 1..MaxCpu
    /\ sBatches = <<>>
    /\ sResults = <<>>
    /\ sOut = <<>>
    /\ sPc = "start"

IdleSign ==
    /\ sAccounts = <<>>
    /\ sTxs = <<>>
    /\ sNumWorkers = 0
    /\ sCpu = 1
    /\ sBatches = <<>>
    /\ sResults = <<>>
    /\ sOut = <<>>
    /\ sPc = "idle"

\* the slices are cut and one worker per slice is created and sent its slice
SignStart ==
    /\ sPc = "start"
    /\ LET count == workerCount(sNumWorkers, sCpu, Len(sTxs))
           batchSize == CeilDiv(Len(sTxs), count)
       IN  sBatches' = WorkerBatches(sAccounts, sTxs, batchSize, count, 0)
    /\ sResults' = [w \in 1..Len(sBatches') |-> SignPending]
    /\ sPc' = "signing"
    /\ UNCHANGED <<sAccounts, sTxs, sNumWorkers, sCpu, sOut>>
    /\ UNCHANGED NotSign

\* a worker posts its final message {success: true, signedTxs}: its promise resolves
WorkerReports ==
    /\ sPc = "signing"
    /\ \E w \in 1..Len(sResults) :
          /\ sResults[w] = SignPending
          /\ sResults' = [sResults EXCEPT ![w] = SignSlice(sBatches[w])]
    /\ UNCHANGED <<sAccounts, sTxs, sNumWorkers, sCpu, sBatches, sOut, sPc>>
    /\ UNCHANGED NotSign

\* a failed worker whose slice is left out and whose failure is not propagated
WorkerFailsTolerated ==
    /\ sPc = "signing"
    /\ \E w \in 1..Len(sResults) :
          /\ sResults[w] = SignPending
          /\ sResults' = [sResults EXCEPT ![w] = SignFailed]
    /\ UNCHANGED <<sAccounts, sTxs, sNumWorkers, sCpu, sBatches, sOut, sPc>>
    /\ UNCHANGED NotSign

\* a worker posts {success: false} or raises an error: its promise rejects, so
\* Promise.all rejects and signTransactionsMultiThreaded throws
WorkerFails ==
    /\ sPc = "signing"
    /\ \E w \in 1..Len(sResults) :
          /\ sResults[w] = SignPending
          /\ sResults' = [sResults EXCEPT ![w] = SignFailed]
    /\ sPc' = "thrown"
    /\ UNCHANGED <<sAccounts, sTxs, sNumWorkers, sCpu, sBatches, sOut>>
    /\ UNCHANGED NotSign

\* Engine.Run hands the signed transactions to Batcher.batchTransactions
EngineSubmits ==
    /\ sPc = "done"
    /\ sPc' = "submitted"
    /\ UNCHANGED <<sAccounts, sTxs, sNumWorkers, sCpu, sBatches, sResults, sOut>>
    /\ UNCHANGED NotSign

\* Promise.all resolves with the slices in worker order: flat, sort, map
SignCollect ==
    /\ sPc = "signing"
    /\ \A w \in 1..Len(sResults) : sResults[w] # SignPending
    /\ LET sorted == SortByIndex(Flatten(sResults))
       IN  sOut' = [k \in 1..Len(sorted) |-> sorted[k].signedTx]
    /\ sPc' = "done"
    /\ UNCHANGED <<sAccounts, sTxs, sNumWorkers, sCpu, sBatches, sResults>>
    /\ UNCHANGED NotSign

NextSign ==
    \/ SignStart
    \/ WorkerReports
    \/ WorkerFails
    \/ SignCollect
    \/ EngineSubmits

\* C5: signTransactionsMultiThreaded returns one signed transaction per input
\* transaction, and the k-th element of the result is the signature of the k-th
\* input transaction (made with the key of accounts[k mod N]), for every worker
\* count and every order in which the workers report.
C5_OrderPreserved ==
    sPc = "done" =>
        /\ Len(sOut) = Len(sTxs)
        /\ \A k \in 1..Len(sTxs) :
              sOut[k] = SignedTx(sTxs[k], sAccounts[((k - 1) % Len(sAccounts)) + 1].mnemonicIndex)

C5_Witness ==
    /\ sPc = "done"
    /\ Len(sBatches) = 2
    /\ sNumWorkers = 3
    /\ sTxs = <<1, 2, 2, 1>>
    /\ Len(sAccounts) = 2
    /\ sOut[3] = SignedTx(2, 11)

\* C24: if any signing worker reports a failure or raises an error,
\* signTransactionsMultiThreaded throws and returns nothing, and Engine.Run
\* submits nothing; a list that is returned or submitted has no slice missing.
C24_FailsAsAWhole ==
    /\ (\E w \in 1..Len(sResults) : sResults[w] = SignFailed) =>
          (sPc = "thrown" /\ sOut = <<>>)
    /\ sPc \in {"done", "submitted"} =>
          /\ \A w \in 1..Len(sResults) : sResults[w] \notin {SignFailed, SignPending}
          /\ Len(sOut) = Len(sTxs)

\* one worker has delivered its slice and another has failed
C24_Witness ==
    /\ sPc = "thrown"
    /\ \E w \in 1..Len(sResults) : sResults[w] = SignFailed
    /\ \E w \in 1..Len(sResults) :
          sResults[w] \notin {SignFailed, SignPending} /\ sResults[w] # <<>>

(***************************************************************************)
(* Batcher.batchTransactions: the sender queues are packed into per-worker *)
(* batch lists; every worker POSTs its batches one after the other.        *)
(***************************************************************************)
MaxSenders == 3
MaxQueue == 2
MaxConc == 2
MaxPostSize == 2
MaxSubmitTx == 3

\* the signed transaction at position p (1-based) of sender s's queue
SignedOf(s, p) == [s |-> s, p |-> p]

\* _concurrency || senderQueues.length, capped by the number of queues
effectiveConcurrency(conc, queues) ==
    Min(IF conc # 0 THEN conc ELSE Len(queues), Len(queues))

\* every sender queue charged to the first worker
chargeFirstWorker(accountIdx, effConc) == 0

chargeWorker(accountIdx, effConc) == accountIdx % effConc

\* a transaction that opens a batch puts the batch in front of the worker's list
PackTxFront(workerBatchList, tx, batchSize) ==
    IF workerBatchList # <<>> /\ Len(workerBatchList[Len(workerBatchList)]) < batchSize
    THEN [workerBatchList EXCEPT ![Len(workerBatchList)] = Append(@, tx)]
    ELSE <<<<tx>>>> \o workerBatchList

\* one transaction: appended to the worker's last batch if that exists and is not
\* full, else a new batch is opened behind it
PackTx(workerBatchList, tx, batchSize) ==
    IF workerBatchList # <<>> /\ Len(workerBatchList[Len(workerBatchList)]) < batchSize
    THEN [workerBatchList EXCEPT ![Len(workerBatchList)] = Append(@, tx)]
    ELSE Append(workerBatchList, <<tx>>)

\* for (const tx of queue), from position p on
RECURSIVE PackQueue(_, _, _, _)
PackQueue(workerBatchList, queue, p, batchSize) ==
    IF p > Len(queue) THEN workerBatchList
    ELSE PackQueue(PackTx(workerBatchList, queue[p], batchSize), queue, p + 1, batchSize)

\* for (accountIdx = 0; accountIdx < senderQueues.length; accountIdx++), from accountIdx on
RECURSIVE PackAll(_, _, _, _, _)
PackAll(batches, queues, accountIdx, batchSize, effConc) ==
    IF accountIdx >= Len(queues) THEN batches
    ELSE LET w == chargeWorker(accountIdx, effConc) + 1
         IN  PackAll([batches EXCEPT ![w] = PackQueue(@, queues[accountIdx + 1], 1, batchSize)],
                     queues, accountIdx + 1, batchSize, effConc)

\* what a settled POST contributes: "data" with the positions that carry an error,
\* "nodata" (a response without data) or "throws" (network / transport failure)
PostOutcomes(batch) ==
    {[kind |-> "data", errs |-> e] : e \in SUBSET (1..Len(batch))}
        \cup {[kind |-> "nodata", errs |-> {}], [kind |-> "throws", errs |-> {}]}

\* the hashes pushed if the first element with an error field ended the batch
RECURSIVE HashesUntilError(_, _, _)
HashesUntilError(batch, errs, k) ==
    IF k > Len(batch) \/ k \in errs THEN <<>>
    ELSE <<batch[k]>> \o HashesUntilError(batch, errs, k + 1)

\* the hashes pushed for a response: those of the elements without an error field
RECURSIVE HashesOf(_, _, _)
HashesOf(batch, errs, k) ==
    IF k > Len(batch) THEN <<>>
    ELSE (IF k \in errs THEN <<>> ELSE <<batch[k]>>) \o HashesOf(batch, errs, k + 1)

InitSubmit ==
    /\ \E n \in 0..MaxSenders :
          \E f \in [1..n -> 0..MaxQueue] :
             /\ SumLen([s \in 1..n |-> [p \in 1..f[s] |-> p]]) <= MaxSubmitTx
             /\ qQueues = [s \in 1..n |-> [p \in 1..f[s] |-> SignedOf(s, p)]]
    /\ qBatchSize \in 0..MaxPostSize
    /\ qConc \in 0..MaxConc
    /\ allBatches = <<>>
    /\ wNext = <<>>
    /\ txHashes = <<>>
    /\ batchErrors = 0
    /\ posted = <<>>
    /\ qPc = "start"

IdleSubmit ==
    /\ qQueues = <<>>
    /\ qBatchSize = 1
    /\ qConc = 0
    /\ allBatches = <<>>
    /\ wNext = <<>>
    /\ txHashes = <<>>
    /\ batchErrors = 0
    /\ posted = <<>>
    /\ qPc = "idle"

\* the batches are packed and the workers are started: every worker that has a
\* batch issues the POST of its first batch and awaits it
SubmitStart ==
    /\ qPc = "start"
    /\ LET effConc == effectiveConcurrency(qConc, qQueues)
       IN  allBatches' = PackAll([w \in 1..effConc |-> <<>>], qQueues, 0, qBatchSize, effConc)
    /\ wNext' = [w \in 1..Len(allBatches') |-> 1]
    /\ qPc' = "running"
    /\ posted' = [w \in 1..Len(allBatches') |-> <<>>]
    /\ UNCHANGED <<qQueues, qBatchSize, qConc, txHashes, batchErrors>>
    /\ UNCHANGED NotSubmit

\* the POST a worker awaits settles: the response is handled, then the worker
\* issues the POST of its next batch, or finishes
PostSettles ==
    /\ qPc = "running"
    /\ \E w \in 1..Len(allBatches) :
          /\ wNext[w] <= Len(allBatches[w])
          /\ LET b == wNext[w]
                 batch == allBatches[w][b]
             IN  /\ \E o \in PostOutcomes(batch) :
                       /\ txHashes' = IF o.kind = "data"
                                      THEN txHashes \o HashesOf(batch, o.errs, 1)
                                      ELSE txHashes
                       /\ batchErrors' = IF o.kind = "data"
                                         THEN batchErrors + Cardinality(o.errs)
                                         ELSE batchErrors + 1
                       /\ posted' = [posted EXCEPT ![w] = Append(@, o)]
                 /\ wNext' = [wNext EXCEPT ![w] = b + 1]
    /\ UNCHANGED <<qQueues, qBatchSize, qConc, allBatches, qPc>>
    /\ UNCHANGED NotSubmit

\* every worker has finished: Promise.all resolves and txHashes is returned
SubmitReturn ==
    /\ qPc = "running"
    /\ \A w \in 1..Len(allBatches) : wNext[w] > Len(allBatches[w])
    /\ qPc' = "returned"
    /\ UNCHANGED <<qQueues, qBatchSize, qConc, allBatches, wNext, txHashes, batchErrors, posted>>
    /\ UNCHANGED NotSubmit

NextSubmit ==
    \/ SubmitStart
    \/ PostSettles
    \/ SubmitReturn

\* the places <<worker, batch, position>> at which a signed transaction was packed
PlacesOf(tx) ==
    {x \in UNION {UNION {{<<w, b, k>> : k \in 1..Len(allBatches[w][b])}
                            : b \in 1..Len(allBatches[w])} : w \in 1..Len(allBatches)} :
        allBatches[x[1]][x[2]][x[3]] = tx}

\* the POST of batch b of worker w has been issued / has settled
PostIssued(w, b) == b <= wNext[w]

PostCompleted(w, b) == b < wNext[w]

\* C2: for two signed transactions of one sender at queue positions i < j,
\* transaction i reaches the node no later than transaction j: as soon as the POST
\* carrying j is issued, either i is in the same batch at an earlier array position,
\* or the POST carrying i has already completed - in every interleaving of the
\* workers.
C2_SenderOrder ==
    qPc \in {"running", "returned"} =>
        \A s \in 1..Len(qQueues) :
            \A i, j \in 1..Len(qQueues[s]) :
                i < j =>
                    \A y \in PlacesOf(qQueues[s][j]) :
                        PostIssued(y[1], y[2]) =>
                            \E x \in PlacesOf(qQueues[s][i]) :
                                \/ (x[1] = y[1] /\ x[2] = y[2] /\ x[3] < y[3])
                                \/ PostCompleted(x[1], x[2])

\* two workers; worker 1 carries the two transactions of sender 1 in two batches,
\* and the second of them is in flight while worker 2 has not finished
C2_Witness ==
    /\ qPc = "running"
    /\ Len(allBatches) = 2
    /\ Len(qQueues) = 3
    /\ Len(qQueues[1]) = 2
    /\ Len(qQueues[2]) = 1
    /\ qBatchSize = 1
    /\ wNext[1] = 2
    /\ wNext[2] = 1
    /\ batchErrors = 1

\* the results of the responses received so far: the elements without an error
\* field of every batch whose POST returned data
ResultsReceived ==
    UNION {UNION {{allBatches[w][b][k] : k \in (1..Len(allBatches[w][b])) \ posted[w][b].errs}
                     : b \in {x \in 1..Len(posted[w]) : posted[w][x].kind = "data"}}
              : w \in 1..Len(posted)}

\* C23: a POST that fails contributes no hash and stops no other batch: when
\* batchTransactions returns, every batch of every worker has been POSTed exactly
\* once. At every moment the hashes collected are exactly the results of the
\* batches that got a response: an element with an error field contributes none
\* and every element with a result contributes its hash, once.
C23_FailedBatchIsolated ==
    qPc \in {"running", "returned"} =>
        /\ \A w \in 1..Len(allBatches) :
              /\ Len(posted[w]) = wNext[w] - 1
              /\ qPc = "returned" => Len(posted[w]) = Len(allBatches[w])
        /\ {txHashes[h] : h \in 1..Len(txHashes)} = ResultsReceived
        /\ Len(txHashes) = Cardinality(ResultsReceived)

\* a worker whose first POST got a response with an error element followed by a
\* result, and whose second POST failed at the transport
C23_Witness ==
    /\ qPc = "returned"
    /\ \E w \in 1..Len(posted) :
          /\ Len(posted[w]) >= 2
          /\ posted[w][1].kind = "data"
          /\ posted[w][1].errs = {1}
          /\ Len(allBatches[w][1]) = 2
          /\ posted[w][2].kind = "throws"
          /\ txHashes = <<allBatches[w][1][2]>>

\* batch b of worker w failed as a whole: its POST threw
BatchFailed(w, b) == b <= Len(posted[w]) /\ posted[w][b].kind = "throws"

\* C35: two different batches of one worker never hold transactions of the same
\* sender, so that no worker issues, after a failed batch, a later batch carrying
\* a higher queue position (nonce) of a sender whose lower one was in the failed
\* batch.
C35_NoGapAfterFailedBatch ==
    qPc \in {"running", "returned"} =>
        \A w \in 1..Len(allBatches) :
            \A b1, b2 \in 1..Len(allBatches[w]) :
                (b1 < b2 /\ BatchFailed(w, b1) /\ PostIssued(w, b2)) =>
                    \A k1 \in 1..Len(allBatches[w][b1]) :
                        \A k2 \in 1..Len(allBatches[w][b2]) :
                            allBatches[w][b1][k1].s # allBatches[w][b2][k2].s

\* C25: batchTransactions uses W = min(concurrency, number of sender queues)
\* workers, W = number of queues when no concurrency is given; every signed
\* transaction of sender queue k (0-based) is placed in exactly one batch, a batch
\* of worker k mod W; the batches hold nothing else, and for batchSize >= 1 no
\* batch holds more than batchSize transactions.
C25_Packing ==
    qPc \in {"running", "returned"} =>
        LET W == IF qConc = 0 THEN Len(qQueues) ELSE Min(qConc, Len(qQueues))
        IN  /\ Len(allBatches) = W
            /\ \A s \in 1..Len(qQueues) :
                  \A p \in 1..Len(qQueues[s]) :
                      /\ Cardinality(PlacesOf(qQueues[s][p])) = 1
                      /\ \A x \in PlacesOf(qQueues[s][p]) : x[1] = ((s - 1) % W) + 1
            /\ SumLen(Flatten(allBatches)) = SumLen(qQueues)
            /\ qBatchSize >= 1 =>
                  \A w \in 1..W :
                      \A b \in 1..Len(allBatches[w]) : Len(allBatches[w][b]) <= qBatchSize

\* three sender queues on two workers: the first worker carries queues 0 and 2,
\* and the second queue's transactions fill its first batch and open another
C25_Witness ==
    /\ qPc = "running"
    /\ Len(qQueues) = 3
    /\ qConc = 2
    /\ qBatchSize = 2
    /\ Len(allBatches) = 2
    /\ Len(allBatches[1]) = 2
    /\ Len(allBatches[1][1]) = 2
    /\ allBatches[1][1][2] = qQueues[3][1]
    /\ allBatches[1][2] = <<qQueues[3][2]>>

(***************************************************************************)
(* The cross-chain reconciler (crossChainListeners.ts): the L2 chain as    *)
(* the node serves it, the database, the L2 follower and the L1 listener.  *)
(***************************************************************************)
MaxWd == 1
MaxBlocks == 4
MaxReorgs == 1
MaxL1Msgs == 2

\* SQL NULL / JavaScript null, and the empty string
Null == -1
EmptyStr == 0

\* parseEther("0.1") in units of 10^10 wei
MinValueE10 == 10000000

MinValue == Wei(MinValueE10, 0)

\* transactions.flat() of a withdrawal run with one sender queue per account
FlatWithdrawals(numAccounts, numTx) ==
    Flatten([s \in 1..numAccounts |->
        LET mine == {i \in 0..(numTx - 1) : i % numAccounts = s - 1}
        IN  [k \in 1..Cardinality(mine) |->
                MulE10(WithdrawDefaultValue
                         + (((s - 1) * SenderStride) + ((k - 1) * numAccounts + (s - 1))))]])

\* uid = (BigInt(tx.value) - BigInt(parseEther("0.1"))) / BigInt(1e10)
PreUid(value) == WeiDivE10(WeiSub(value, MinValue))

\* the amount of the WithdrawalQueued event the moat contract emits for a
\* withdrawal of the given value
EventAmount(value) == WeiSub(value, MinValue)

\* uidNum = Number(amount) / 1e10, for an amount that is a multiple of 10^10
uidNum(amount) == amount.q

\* the hash of the L2 transaction that carries withdrawal w
L2TxHash(w) == 100 + w

NullRow == [l2_txhash |-> Null, l2_height |-> Null, l2_timestamp |-> Null,
            l1_txhash |-> Null, l1_height |-> Null, l1_timestamp |-> Null]

RECURSIVE SortedSeq(_)
SortedSeq(S) ==
    IF S = {} THEN <<>>
    ELSE LET m == CHOOSE x \in S : \A y \in S : x <= y
         IN  <<m>> \o SortedSeq(S \ {m})

\* ---- the node's view of the L2 chain
ChainHead == Len(canon) - 1

HashAt(h) == canon[h + 1]

\* provider.getBlock(h): the canonical block at height h, or null
getBlock(h) == IF h >= 0 /\ h <= ChainHead THEN HashAt(h) ELSE Null

WdIds == 1..Len(rTransactions)

CanonicalWd(upTo) == UNION {{blocks[canon[k]].wd[i] : i \in 1..Len(blocks[canon[k]].wd)}
                              : k \in 1..(upTo + 1)}

NewBlock(height, parent, wds) ==
    [height |-> height, parent |-> parent, wd |-> SortedSeq(wds), timestamp |-> Len(blocks) + 1]

\* the highest height any block ever had
MaxHeightSeen == CHOOSE m \in {blocks[b].height : b \in 1..Len(blocks)} :
                    \A b \in 1..Len(blocks) : blocks[b].height <= m

\* ---- SQL statements of the follower
\* UPDATE txs SET l2_txhash=NULL, l2_height=NULL, l2_timestamp=NULL WHERE l2_height = ?
clearHeightKeep(rows, h) == rows

clearHeight(rows, h) ==
    [u \in DOMAIN rows |->
        IF rows[u].l2_height = h
        THEN [rows[u] EXCEPT !.l2_txhash = Null, !.l2_height = Null, !.l2_timestamp = Null]
        ELSE rows[u]]

\* INSERT INTO txs (uid, l2_*) ... ON CONFLICT(uid) DO UPDATE SET l2_* = excluded.l2_*
upsert(rows, d) ==
    [u \in DOMAIN rows \cup {d.uid} |->
        [(IF u \in DOMAIN rows THEN rows[u] ELSE NullRow)
            EXCEPT !.l2_txhash = IF u = d.uid THEN d.tx ELSE @,
                   !.l2_height = IF u = d.uid THEN d.h ELSE @,
                   !.l2_timestamp = IF u = d.uid THEN d.ts ELSE @]]

\* no row is written
UpsertNone(rows, ds) == rows

RECURSIVE UpsertAll(_, _)
UpsertAll(rows, ds) ==
    IF ds = <<>> THEN rows ELSE UpsertAll(upsert(rows, Head(ds)), Tail(ds))

\* DELETE FROM l2_headers WHERE height = ?
deleteL2Header(headers, h) == [x \in DOMAIN headers \ {h} |-> headers[x]]

\* INSERT OR REPLACE INTO l2_headers
insertL2Header(headers, h, b) ==
    [x \in DOMAIN headers \cup {h} |->
        IF x = h THEN [hash |-> b, timestamp |-> blocks[b].timestamp] ELSE headers[x]]

\* the reorg test never fires
reorgDetectedNever(lp, lh, b) == FALSE

\* lastProcessed > 0 && lastHash && block.parentHash !== lastHash
reorgDetected(lp, lh, b) == lp > 0 /\ lh # Null /\ blocks[b].parent # lh

\* ---- the L1 listener: raw blocks and their parsing
TargetHash == 7
OtherHash == 8
EmptyHash == 0

\* OP_DUP OP_HASH160 <20 bytes> OP_EQUALVERIFY OP_CHECKSIG
P2PKHScript(hash20) ==
    [len |-> 25, b0 |-> 118, b1 |-> 169, b2 |-> 20, hash20 |-> hash20, b23 |-> 136, b24 |-> 172]

\* a 25-byte script that is not P2PKH (OP_RETURN first) with 20 bytes at offset 3
DataScript(hash20) ==
    [len |-> 25, b0 |-> 106, b1 |-> 22, b2 |-> 0, hash20 |-> hash20, b23 |-> 0, b24 |-> 0]

isP2PKH(script) ==
    /\ script.len = 25
    /\ script.b0 = 118
    /\ script.b1 = 169
    /\ script.b2 = 20
    /\ script.b23 = 136
    /\ script.b24 = 172

\* let addrHash = p2pkh ? "" : script.subarray(3, 23).toString("hex")
addrHashOf(script) == IF isP2PKH(script) THEN EmptyHash ELSE script.hash20

\* the uid of one parsed transaction: the value of the last output whose addrHash
\* equals the target, 0 if there is none
RECURSIVE uidOfVouts(_, _, _)
uidOfVouts(vouts, target, uid) ==
    IF vouts = <<>> THEN uid
    ELSE uidOfVouts(Tail(vouts), target,
                    IF addrHashOf(Head(vouts).script) = target THEN Head(vouts).value ELSE uid)

parseDogeCoinTransactions(msg, target) ==
    [k \in 1..Len(msg.txs) |->
        [hash |-> msg.txs[k].hash, uid |-> uidOfVouts(msg.txs[k].vouts, target, 0)]]

\* the rows built for a block of known height
L1Rows(msg, target, nowTs) ==
    LET parsed == parseDogeCoinTransactions(msg, target)
    IN  [k \in 1..Len(parsed) |->
            [uid |-> parsed[k].uid, l2_txhash |-> EmptyStr, l2_height |-> 0,
             l2_timestamp |-> 0, l1_txhash |-> parsed[k].hash,
             l1_height |-> msg.height, l1_timestamp |-> nowTs]]

\* INSERT INTO txs (...) ON CONFLICT(uid) DO UPDATE SET l1_* = excluded.l1_*
insertTx(rows, r) ==
    [u \in DOMAIN rows \cup {r.uid} |->
        IF u # r.uid THEN rows[u]
        ELSE IF u \in DOMAIN rows
             THEN [rows[u] EXCEPT !.l1_txhash = r.l1_txhash, !.l1_height = r.l1_height,
                                  !.l1_timestamp = r.l1_timestamp]
             ELSE [l2_txhash |-> r.l2_txhash, l2_height |-> r.l2_height,
                   l2_timestamp |-> r.l2_timestamp, l1_txhash |-> r.l1_txhash,
                   l1_height |-> r.l1_height, l1_timestamp |-> r.l1_timestamp]]

RECURSIVE InsertTxs(_, _)
InsertTxs(rows, rs) ==
    IF rs = <<>> THEN rows ELSE InsertTxs(insertTx(rows, Head(rs)), Tail(rs))

\* INSERT OR REPLACE INTO l1_headers
insertL1HeaderReplace(headers, msg) ==
    [x \in DOMAIN headers \cup {msg.height} |->
        IF x = msg.height THEN msg.hash ELSE headers[x]]

\* INSERT OR IGNORE INTO l1_headers
insertL1Header(headers, msg) ==
    IF msg.height \in DOMAIN headers THEN headers
    ELSE [x \in DOMAIN headers \cup {msg.height} |->
            IF x = msg.height THEN msg.hash ELSE headers[x]]

CoinbaseTx == [hash |-> 200, vouts |-> <<[value |-> 5, script |-> P2PKHScript(OtherHash)]>>]

\* the bridge's L1 payout of a withdrawal: uid satoshis to the target address
PayoutTx(value) ==
    [hash |-> 201, vouts |-> <<[value |-> PreUid(value), script |-> P2PKHScript(TargetHash)],
                                [value |-> 3, script |-> P2PKHScript(OtherHash)]>>]

\* a transaction with a data output that carries the target's 20 bytes
DataTx(value) ==
    [hash |-> 202, vouts |-> <<[value |-> PreUid(value), script |-> DataScript(TargetHash)]>>]

\* readVarInt(block, 80) on a message that ends with its header: block[80] is
\* undefined, no prefix test matches and readUInt32LE(81) is out of range
readVarIntThrows(msg) == msg.len = 80

\* the raw-block messages the ZMQ socket may deliver: a short one, a bare header,
\* and whole blocks
L1Messages ==
    {[len |-> 79, height |-> Null, hash |-> 300, txs |-> <<>>],
     [len |-> 80, height |-> Null, hash |-> 305, txs |-> <<>>],
     [len |-> 300, height |-> Null, hash |-> 301, txs |-> <<CoinbaseTx>>],
     [len |-> 300, height |-> 50, hash |-> 302, txs |-> <<CoinbaseTx>>]}
      \cup {[len |-> 400, height |-> 50, hash |-> 303, txs |-> <<CoinbaseTx, PayoutTx(rTransactions[w])>>]
              : w \in WdIds}
      \cup {[len |-> 400, height |-> 51, hash |-> 304, txs |-> <<CoinbaseTx, DataTx(rTransactions[w])>>]
              : w \in WdIds}

\* ---- the states the reconciler starts from
Genesis == [height |-> 0, parent |-> 0, wd |-> <<>>, timestamp |-> 1]

StaleRow == [l2_txhash |-> 99, l2_height |-> 1, l2_timestamp |-> 9,
             l1_txhash |-> 199, l1_height |-> 49, l1_timestamp |-> 9]

\* startL2Listener is called on a database that holds the run's pre-registered rows
InitL2 ==
    /\ \E n \in 1..MaxWd : rTransactions = FlatWithdrawals(1, n)
    /\ rPc = "started"
    /\ blocks = <<Genesis>>
    /\ canon = <<1>>
    /\ cBudget = [blocks |-> MaxBlocks, reorgs |-> MaxReorgs]
    /\ latestTarget = 0
    /\ pumping = FALSE
    /\ lastProcessed = 0
    /\ lastHash = Null
    /\ fPc = "init1"
    /\ fBlock = Null
    /\ fTodo = <<>>
    /\ txsToUpsert = <<>>
    /\ l2_headers = <<>>
    /\ txs = [u \in {PreUid(rTransactions[k]) : k \in 1..Len(rTransactions)} |-> NullRow]
    /\ l1_headers = <<>>
    /\ l1Pc = "off"
    /\ l1Log = <<>>
    /\ parsedTxs = <<>>
    /\ nRollbacks = 0

\* before startCrossChainListeners is called
InitRecon ==
    /\ \E a \in 1..MaxAccounts : \E n \in 1..MaxWd : rTransactions = FlatWithdrawals(a, n)
    /\ rPc = "start"
    /\ blocks = <<Genesis>>
    /\ canon = <<1>>
    /\ cBudget = [blocks |-> MaxBlocks, reorgs |-> MaxReorgs]
    /\ latestTarget = 0
    /\ pumping = FALSE
    /\ lastProcessed = 0
    /\ lastHash = Null
    /\ fPc = "off"
    /\ fBlock = Null
    /\ fTodo = <<>>
    /\ txsToUpsert = <<>>
    /\ l2_headers = <<>>
    /\ txs \in {<<>>, [u \in {0} |-> StaleRow]}
    /\ l1_headers = <<>>
    /\ l1Pc = "off"
    /\ l1Log = <<>>
    /\ parsedTxs = <<>>
    /\ nRollbacks = 0

IdleRecon ==
    /\ rTransactions = <<>>
    /\ rPc = "idle"
    /\ blocks = <<Genesis>>
    /\ canon = <<1>>
    /\ cBudget = [blocks |-> 0, reorgs |-> 0]
    /\ latestTarget = 0
    /\ pumping = FALSE
    /\ lastProcessed = 0
    /\ lastHash = Null
    /\ fPc = "off"
    /\ fBlock = Null
    /\ fTodo = <<>>
    /\ txsToUpsert = <<>>
    /\ l2_headers = <<>>
    /\ txs = <<>>
    /\ l1_headers = <<>>
    /\ l1Pc = "off"
    /\ l1Log = <<>>
    /\ parsedTxs = <<>>
    /\ nRollbacks = 0

varsChain == <<blocks, canon, cBudget>>

varsFollower == <<latestTarget, pumping, lastProcessed, lastHash, fPc, fBlock, fTodo, txsToUpsert,
                  nRollbacks>>

varsL1 == <<l1_headers, l1Pc, l1Log, parsedTxs>>

\* ---- startCrossChainListeners
StartCrossChainListeners ==
    /\ rPc = "start"
    /\ LET uids == [k \in 1..Len(rTransactions) |-> PreUid(rTransactions[k])]
           distinct == \A i, j \in 1..Len(uids) : i # j => uids[i] # uids[j]
       IN  /\ txs' = [u \in {uids[k] : k \in 1..Len(uids)} |-> NullRow]
           /\ rPc' = IF distinct THEN "started" ELSE "failed"
           /\ l1Pc' = IF distinct THEN "listening" ELSE l1Pc
           /\ fPc' = IF distinct THEN "init1" ELSE fPc
    /\ UNCHANGED <<rTransactions, l2_headers, l1_headers, l1Log, parsedTxs>>
    /\ UNCHANGED <<latestTarget, pumping, lastProcessed, lastHash, fBlock, fTodo, txsToUpsert,
                   nRollbacks>>
    /\ UNCHANGED varsChain
    /\ UNCHANGED NotRecon

\* ---- the L2 chain
Mine ==
    /\ cBudget.blocks > 0
    /\ \E S \in SUBSET (IF rPc = "started" THEN WdIds \ CanonicalWd(ChainHead) ELSE {}) :
          /\ blocks' = Append(blocks, NewBlock(ChainHead + 1, HashAt(ChainHead), S))
          /\ canon' = Append(canon, Len(blocks) + 1)
    /\ cBudget' = [cBudget EXCEPT !.blocks = @ - 1]
    /\ UNCHANGED <<rTransactions, rPc, l2_headers, txs>>
    /\ UNCHANGED <<varsFollower, varsL1>>
    /\ UNCHANGED NotRecon

\* the node switches to a branch that forks off at height f
Reorg ==
    /\ cBudget.blocks > 0
    /\ cBudget.reorgs > 0
    /\ \E f \in 0..(ChainHead - 1) :
          \E S \in SUBSET (IF rPc = "started" THEN WdIds \ CanonicalWd(f) ELSE {}) :
             /\ blocks' = Append(blocks, NewBlock(f + 1, HashAt(f), S))
             /\ canon' = Append(SubSeq(canon, 1, f + 1), Len(blocks) + 1)
    /\ cBudget' = [blocks |-> cBudget.blocks - 1, reorgs |-> cBudget.reorgs - 1]
    /\ UNCHANGED <<rTransactions, rPc, l2_headers, txs>>
    /\ UNCHANGED <<varsFollower, varsL1>>
    /\ UNCHANGED NotRecon

\* ---- startL2Listener
L2GotBlockNumber ==
    /\ fPc = "init1"
    /\ latestTarget' = ChainHead
    /\ lastProcessed' = ChainHead
    /\ fPc' = "init2"
    /\ UNCHANGED <<pumping, lastHash, fBlock, fTodo, txsToUpsert, nRollbacks>>
    /\ UNCHANGED <<rTransactions, rPc, l2_headers, txs>>
    /\ UNCHANGED <<varsChain, varsL1>>
    /\ UNCHANGED NotRecon

\* the head block arrives; the "block" handler is registered and pump() is kicked
\* off, which finds nothing to do
L2GotHeadBlock ==
    /\ fPc = "init2"
    /\ getBlock(latestTarget) # Null
    /\ lastHash' = getBlock(latestTarget)
    /\ fPc' = "idle"
    /\ UNCHANGED <<latestTarget, pumping, lastProcessed, fBlock, fTodo, txsToUpsert, nRollbacks>>
    /\ UNCHANGED <<rTransactions, rPc, l2_headers, txs>>
    /\ UNCHANGED <<varsChain, varsL1>>
    /\ UNCHANGED NotRecon

\* an RPC of the start-up fails, or the head block is gone: startL2Listener rejects
L2StartFails ==
    /\ fPc \in {"init1", "init2"}
    /\ fPc' = "dead"
    /\ UNCHANGED <<latestTarget, pumping, lastProcessed, lastHash, fBlock, fTodo, txsToUpsert,
                   nRollbacks>>
    /\ UNCHANGED <<rTransactions, rPc, l2_headers, txs>>
    /\ UNCHANGED <<varsChain, varsL1>>
    /\ UNCHANGED NotRecon

\* provider.on("block"): raise the target and call pump()
HeadEvent ==
    /\ fPc \in {"idle", "fetch", "prev", "receipt"}
    /\ \E bn \in 0..MaxHeightSeen : latestTarget' = Max(latestTarget, bn)
    /\ IF ~pumping /\ lastProcessed < latestTarget'
       THEN pumping' = TRUE /\ fPc' = "fetch"
       ELSE UNCHANGED <<pumping, fPc>>
    /\ UNCHANGED <<lastProcessed, lastHash, fBlock, fTodo, txsToUpsert, nRollbacks>>
    /\ UNCHANGED <<rTransactions, rPc, l2_headers, txs>>
    /\ UNCHANGED <<varsChain, varsL1>>
    /\ UNCHANGED NotRecon

\* getBlockWithTransactions(nextHeight) returns null: break
PumpNoBlock ==
    /\ fPc = "fetch"
    /\ getBlock(lastProcessed + 1) = Null
    /\ fPc' = "idle"
    /\ pumping' = FALSE
    /\ UNCHANGED <<latestTarget, lastProcessed, lastHash, fBlock, fTodo, txsToUpsert, nRollbacks>>
    /\ UNCHANGED <<rTransactions, rPc, l2_headers, txs>>
    /\ UNCHANGED <<varsChain, varsL1>>
    /\ UNCHANGED NotRecon

\* the fetched block does not build on lastHash: roll back lastProcessed
PumpRollback ==
    /\ fPc = "fetch"
    /\ getBlock(lastProcessed + 1) # Null
    /\ reorgDetected(lastProcessed, lastHash, getBlock(lastProcessed + 1))
    /\ l2_headers' = deleteL2Header(l2_headers, lastProcessed)
    /\ txs' = clearHeight(txs, lastProcessed)
    /\ lastProcessed' = lastProcessed - 1
    /\ IF lastProcessed' > 0
       THEN IF lastProcessed' \in DOMAIN l2_headers'
            THEN lastHash' = l2_headers'[lastProcessed'].hash /\ fPc' = "fetch"
            ELSE lastHash' = Null /\ fPc' = "prev"
       ELSE lastHash' = Null /\ fPc' = "fetch"
    /\ nRollbacks' = nRollbacks + 1
    /\ UNCHANGED <<latestTarget, pumping, fBlock, fTodo, txsToUpsert>>
    /\ UNCHANGED <<rTransactions, rPc>>
    /\ UNCHANGED <<varsChain, varsL1>>
    /\ UNCHANGED NotRecon

\* the RPC fallback of the rollback: lastHash = prev?.hash ?? null
PumpGotPrev ==
    /\ fPc = "prev"
    /\ lastHash' = getBlock(lastProcessed)
    /\ fPc' = "fetch"
    /\ UNCHANGED <<latestTarget, pumping, lastProcessed, fBlock, fTodo, txsToUpsert, nRollbacks>>
    /\ UNCHANGED <<rTransactions, rPc, l2_headers, txs>>
    /\ UNCHANGED <<varsChain, varsL1>>
    /\ UNCHANGED NotRecon

\* a commit after which the follower counts itself at the target height
CommitToTarget(b, ds) ==
    /\ txs' = UpsertAll(clearHeight(txs, lastProcessed + 1), ds)
    /\ l2_headers' = insertL2Header(l2_headers, lastProcessed + 1, b)
    /\ lastProcessed' = latestTarget
    /\ lastHash' = b
    /\ pumping' = FALSE
    /\ fPc' = "idle"
    /\ fBlock' = Null
    /\ fTodo' = <<>>
    /\ txsToUpsert' = <<>>

\* the database transaction that applies block b with the collected rows, and the
\* loop test that follows it
Commit(b, ds) ==
    /\ txs' = UpsertAll(clearHeight(txs, lastProcessed + 1), ds)
    /\ l2_headers' = insertL2Header(l2_headers, lastProcessed + 1, b)
    /\ lastProcessed' = lastProcessed + 1
    /\ lastHash' = b
    /\ pumping' = (lastProcessed' < latestTarget)
    /\ fPc' = IF lastProcessed' < latestTarget THEN "fetch" ELSE "idle"
    /\ fBlock' = Null
    /\ fTodo' = <<>>
    /\ txsToUpsert' = <<>>

\* the fetched block passes the test: its moat transactions are looked up one by
\* one; a block without any is committed at once
PumpApply ==
    /\ fPc = "fetch"
    /\ getBlock(lastProcessed + 1) # Null
    /\ ~reorgDetected(lastProcessed, lastHash, getBlock(lastProcessed + 1))
    /\ LET b == getBlock(lastProcessed + 1)
       IN  IF blocks[b].wd = <<>>
           THEN Commit(b, <<>>)
           ELSE /\ fBlock' = b
                /\ fTodo' = blocks[b].wd
                /\ txsToUpsert' = <<>>
                /\ fPc' = "receipt"
                /\ UNCHANGED <<pumping, lastProcessed, lastHash, l2_headers, txs>>
    /\ UNCHANGED <<latestTarget, nRollbacks, rTransactions, rPc>>
    /\ UNCHANGED <<varsChain, varsL1>>
    /\ UNCHANGED NotRecon

\* getTransactionReceipt answers for the next moat transaction of the block (null if
\* the node no longer has the transaction in its chain); after the last one the
\* block is committed
PumpGotReceipt ==
    /\ fPc = "receipt"
    /\ LET w == Head(fTodo)
           found == IF w \in CanonicalWd(ChainHead)
                    THEN <<[uid |-> uidNum(EventAmount(rTransactions[w])), tx |-> L2TxHash(w),
                            h |-> lastProcessed + 1, ts |-> blocks[fBlock].timestamp]>>
                    ELSE <<>>
       IN  IF Tail(fTodo) = <<>>
           THEN Commit(fBlock, txsToUpsert \o found)
           ELSE /\ fTodo' = Tail(fTodo)
                /\ txsToUpsert' = txsToUpsert \o found
                /\ UNCHANGED <<pumping, lastProcessed, lastHash, fPc, fBlock, l2_headers, txs>>
    /\ UNCHANGED <<latestTarget, nRollbacks, rTransactions, rPc>>
    /\ UNCHANGED <<varsChain, varsL1>>
    /\ UNCHANGED NotRecon

\* an awaited RPC of the pump rejects and the flag is left set
PumpRpcErrorKeepsFlag ==
    /\ fPc \in {"fetch", "prev", "receipt"}
    /\ fPc' = "idle"
    /\ fBlock' = Null
    /\ fTodo' = <<>>
    /\ txsToUpsert' = <<>>
    /\ UNCHANGED <<latestTarget, pumping, lastProcessed, lastHash, nRollbacks>>
    /\ UNCHANGED <<rTransactions, rPc, l2_headers, txs>>
    /\ UNCHANGED <<varsChain, varsL1>>
    /\ UNCHANGED NotRecon

\* an awaited RPC of the pump rejects: catch, finally
PumpRpcError ==
    /\ fPc \in {"fetch", "prev", "receipt"}
    /\ fPc' = "idle"
    /\ pumping' = FALSE
    /\ fBlock' = Null
    /\ fTodo' = <<>>
    /\ txsToUpsert' = <<>>
    /\ UNCHANGED <<latestTarget, lastProcessed, lastHash, nRollbacks>>
    /\ UNCHANGED <<rTransactions, rPc, l2_headers, txs>>
    /\ UNCHANGED <<varsChain, varsL1>>
    /\ UNCHANGED NotRecon

\* ---- startL1Listener: one raw-block message. A short message is skipped; an
\* exception of the parser ends the for-await loop and the listener's promise
\* rejects; a block of known height is written in one database transaction.
L1Message ==
    /\ l1Pc = "listening"
    /\ Len(l1Log) < MaxL1Msgs
    /\ \E m \in L1Messages :
          /\ l1Log' = Append(l1Log, m)
          /\ IF m.len < 80
             THEN /\ parsedTxs' = <<>>
                  /\ UNCHANGED <<l1_headers, txs, l1Pc>>
             ELSE IF readVarIntThrows(m)
             THEN /\ l1Pc' = "failed"
                  /\ UNCHANGED <<l1_headers, txs, parsedTxs>>
             ELSE /\ parsedTxs' = parseDogeCoinTransactions(m, TargetHash)
                  /\ l1Pc' = l1Pc
                  /\ IF m.height = Null
                     THEN UNCHANGED <<l1_headers, txs>>
                     ELSE /\ l1_headers' = insertL1Header(l1_headers, m)
                          /\ txs' = InsertTxs(txs, L1Rows(m, TargetHash, Len(l1Log) + 1))
    /\ UNCHANGED <<rTransactions, rPc, l2_headers>>
    /\ UNCHANGED <<varsChain, varsFollower>>
    /\ UNCHANGED NotRecon

NextL2 ==
    \/ Mine
    \/ Reorg
    \/ L2GotBlockNumber
    \/ L2GotHeadBlock
    \/ L2StartFails
    \/ HeadEvent
    \/ PumpNoBlock
    \/ PumpRollback
    \/ PumpGotPrev
    \/ PumpApply
    \/ PumpGotReceipt
    \/ PumpRpcError

NextRecon ==
    \/ StartCrossChainListeners
    \/ L1Message
    \/ Mine
    \/ Reorg
    \/ L2GotBlockNumber
    \/ L2GotHeadBlock
    \/ L2StartFails
    \/ HeadEvent
    \/ PumpNoBlock
    \/ PumpRollback
    \/ PumpGotPrev
    \/ PumpApply
    \/ PumpGotReceipt
    \/ PumpRpcError

\* the L2 columns of a row hold data
L2Populated(row) == row.l2_txhash \notin {Null, EmptyStr}

L1Populated(row) == row.l1_txhash \notin {Null, EmptyStr}

HeadersCanonical ==
    \A h \in DOMAIN l2_headers : h <= ChainHead /\ l2_headers[h].hash = HashAt(h)

\* every row with L2 data took it from the block that is canonical at its height
RowsCanonical ==
    \A u \in DOMAIN txs :
        L2Populated(txs[u]) =>
            LET h == txs[u].l2_height
            IN  /\ h >= 1
                /\ h <= ChainHead
                /\ blocks[HashAt(h)].timestamp = txs[u].l2_timestamp
                /\ \E i \in 1..Len(blocks[HashAt(h)].wd) :
                      /\ L2TxHash(blocks[HashAt(h)].wd[i]) = txs[u].l2_txhash
                      /\ uidNum(EventAmount(rTransactions[blocks[HashAt(h)].wd[i]])) = u

\* C8: when the block fetched for height lastProcessed+1 does not build on lastHash
\* (lastProcessed > 0, lastHash known), the block is not applied: the l2_headers row
\* at lastProcessed is deleted, the l2_* columns of the txs rows at that height are
\* cleared and nothing else changes in the two tables, lastProcessed goes down by
\* exactly 1; and a header only ever appears for height lastProcessed+1 through a
\* fetched block of that height on which the parent-hash test did not fire.
C8_RollbackOnMismatch ==
    [][/\ (/\ fPc = "fetch"
           /\ getBlock(lastProcessed + 1) # Null
           /\ lastProcessed > 0
           /\ lastHash # Null
           /\ blocks[getBlock(lastProcessed + 1)].parent # lastHash
           /\ (lastProcessed' # lastProcessed \/ l2_headers' # l2_headers))
          => /\ lastProcessed' = lastProcessed - 1
             /\ DOMAIN l2_headers' = DOMAIN l2_headers \ {lastProcessed}
             /\ \A h \in DOMAIN l2_headers' : l2_headers'[h] = l2_headers[h]
             /\ DOMAIN txs' = DOMAIN txs
             /\ \A u \in DOMAIN txs :
                   IF txs[u].l2_height = lastProcessed
                   THEN txs'[u] = [txs[u] EXCEPT !.l2_txhash = Null, !.l2_height = Null,
                                                 !.l2_timestamp = Null]
                   ELSE txs'[u] = txs[u]
       /\ \A h \in DOMAIN l2_headers' \ DOMAIN l2_headers :
             /\ fPc \in {"fetch", "receipt"}
             /\ h = lastProcessed + 1
             /\ blocks[l2_headers'[h].hash].height = h
             /\ ~(/\ lastProcessed > 0
                  /\ lastHash # Null
                  /\ blocks[l2_headers'[h].hash].parent # lastHash)
      ]_vars

\* a rollback has run down to height 0 and cleared the row of a withdrawal
C8_Witness ==
    /\ nRollbacks = 1
    /\ fPc = "fetch"
    /\ lastProcessed = 0
    /\ lastHash = Null
    /\ l2_headers = <<>>
    /\ \E b \in 1..Len(blocks) : b # HashAt(1) /\ blocks[b].height = 1 /\ blocks[b].wd # <<>>
    /\ \A u \in DOMAIN txs : txs[u].l2_height = Null

HeadersWritten ==
    {h \in DOMAIN l2_headers' : h \notin DOMAIN l2_headers \/ l2_headers'[h] # l2_headers[h]}

\* C30: lastProcessed starts at the head height read at startup and afterwards
\* changes only by +1, in the step that commits the block at height
\* lastProcessed + 1, or by -1, in a rollback; a block is committed only at height
\* lastProcessed + 1; latestTarget never decreases and lastProcessed never
\* exceeds latestTarget.
C30_StepByOne ==
    /\ [](lastProcessed <= latestTarget)
    /\ [][latestTarget' >= latestTarget]_vars
    /\ [][HeadersWritten \subseteq {lastProcessed + 1}]_vars
    /\ [][lastProcessed' # lastProcessed =>
             \/ /\ fPc = "init1"
                /\ lastProcessed' = ChainHead
                /\ latestTarget' = ChainHead
             \/ /\ fPc # "init1"
                /\ lastProcessed' = lastProcessed + 1
                /\ HeadersWritten = {lastProcessed'}
                /\ l2_headers'[lastProcessed'].hash = lastHash'
                /\ blocks[lastHash'].height = lastProcessed'
             \/ /\ fPc # "init1"
                /\ lastProcessed' = lastProcessed - 1
                /\ nRollbacks' = nRollbacks + 1
                /\ lastProcessed \notin DOMAIN l2_headers']_vars

\* after a rollback the follower has caught up with the head again
C30_Witness ==
    /\ nRollbacks >= 1
    /\ fPc = "idle"
    /\ lastProcessed = ChainHead
    /\ lastProcessed = latestTarget
    /\ lastProcessed \in DOMAIN l2_headers
    /\ l2_headers[lastProcessed].hash = HashAt(ChainHead)

\* the withdrawals of the block whose header is stored for height h
HeaderWd(h) == blocks[l2_headers[h].hash].wd

\* every stored header has the rows of its block's withdrawals
HeaderHasRows ==
    \A h \in DOMAIN l2_headers :
        \A i \in 1..Len(HeaderWd(h)) :
            LET u == uidNum(EventAmount(rTransactions[HeaderWd(h)[i]]))
            IN  /\ u \in DOMAIN txs
                /\ txs[u].l2_height = h
                /\ txs[u].l2_txhash = L2TxHash(HeaderWd(h)[i])

\* every row with L2 data belongs to a withdrawal of the block headered at its height
RowsHaveHeader ==
    \A u \in DOMAIN txs :
        L2Populated(txs[u]) =>
            /\ txs[u].l2_height \in DOMAIN l2_headers
            /\ \E i \in 1..Len(HeaderWd(txs[u].l2_height)) :
                  txs[u].l2_txhash = L2TxHash(HeaderWd(txs[u].l2_height)[i])

\* an execution of the pump loop is between two of its awaits
PumpActive == fPc \in {"fetch", "prev", "receipt"}

\* the steps of a running pump
PumpSteps ==
    \/ PumpNoBlock
    \/ PumpRollback
    \/ PumpGotPrev
    \/ PumpApply
    \/ PumpGotReceipt
    \/ PumpRpcError

\* C39: the pumping flag is set exactly while the one execution of the pump loop
\* is active; a new-head notification that arrives while a pump is running only
\* raises latestTarget; a pump that leaves the loop after a commit has reached
\* the target as raised so far; and every running pump ends with the flag
\* cleared, also after an error.
C39_SinglePump ==
    /\ [](pumping <=> PumpActive)
    /\ [][(pumping /\ latestTarget' # latestTarget) =>
             /\ pumping'
             /\ UNCHANGED <<fPc, lastProcessed, lastHash, fBlock, fTodo, txsToUpsert,
                            nRollbacks, l2_headers, txs>>]_vars
    /\ [][(pumping /\ ~pumping' /\ lastProcessed' # lastProcessed) =>
             lastProcessed' = latestTarget']_vars
    /\ (pumping ~> ~pumping)

\* a pump is reading receipts while the target is two blocks ahead
C39_Witness ==
    /\ pumping
    /\ fPc = "receipt"
    /\ latestTarget = lastProcessed + 2
    /\ nRollbacks >= 1

\* the follower fixes its startup height in this step
StartupHeightFixed == fPc = "init1" /\ fPc' = "init2"

\* C40: when the L2 follower fixes its startup height, no withdrawal of the run
\* has reached a block yet, so every block that contains a withdrawal of the
\* run is higher than the startup height and is processed by the follower.
C40_StartupBeforeWithdrawals ==
    [][StartupHeightFixed => CanonicalWd(ChainHead) = {}]_vars

\* the l1_* / l2_* columns of a row
L1Columns(row) == <<row.l1_txhash, row.l1_height, row.l1_timestamp>>

L2Columns(row) == <<row.l2_txhash, row.l2_height, row.l2_timestamp>>

\* C38: a write of the L1 listener leaves the l2_* columns of every existing
\* txs row as they are; a write of the L2 follower (upsert, clearing, rollback)
\* leaves the l1_* columns of every existing row as they are; a rollback
\* deletes no txs row; and an l1_headers row, once written for a height, is
\* never changed by a later block at that height.
C38_OwnColumns ==
    [][/\ l1Log' # l1Log =>
             \A u \in DOMAIN txs :
                 u \in DOMAIN txs' /\ L2Columns(txs'[u]) = L2Columns(txs[u])
       /\ (l1Log' = l1Log /\ rPc' = rPc) =>
             \A u \in DOMAIN txs :
                 u \in DOMAIN txs' /\ L1Columns(txs'[u]) = L1Columns(txs[u])
       /\ nRollbacks' # nRollbacks => DOMAIN txs' = DOMAIN txs
       /\ \A h \in DOMAIN l1_headers :
             h \in DOMAIN l1_headers' /\ l1_headers'[h] = l1_headers[h]]_vars

\* two L1 blocks of the same height arrived, the header is that of the first,
\* a row carries L1 data, and after a rollback a row carries L2 data
C38_Witness ==
    /\ Len(l1Log) = 2
    /\ l1Log[1].height # Null
    /\ l1Log[1].height = l1Log[2].height
    /\ l1Log[1].hash # l1Log[2].hash
    /\ l1_headers[l1Log[1].height] = l1Log[1].hash
    /\ \E u \in DOMAIN txs : L1Populated(txs[u])
    /\ nRollbacks >= 1
    /\ \E u \in DOMAIN txs : L2Populated(txs[u])

\* the stored header of height h is the header of the node's block at h
HeaderCanonical(h) == h <= ChainHead /\ l2_headers[h].hash = HashAt(h)

PaysWithdrawal(tx, w) ==
    \E i \in 1..Len(tx.vouts) :
        /\ tx.vouts[i].script = P2PKHScript(TargetHash)
        /\ tx.vouts[i].value = PreUid(rTransactions[w])

\* C10: every txs row with both its l1_* and l2_* fields populated is a true match
\* (its uid is the pre-registered key of a withdrawal, equal to the uid derived from
\* that withdrawal's event amount, and its l1_txhash is a transaction paying that
\* withdrawal), and the L1 listener files the payout of a withdrawal under the same
\* key as the pre-registration and the L2 follower.
C10_TrueMatch ==
    /\ \A u \in DOMAIN txs :
          (rPc = "started" /\ L1Populated(txs[u]) /\ L2Populated(txs[u])) =>
              \E w \in WdIds :
                 /\ u = PreUid(rTransactions[w])
                 /\ u = uidNum(EventAmount(rTransactions[w]))
                 /\ txs[u].l2_txhash = L2TxHash(w)
                 /\ \E k \in 1..Len(l1Log) : \E t \in 1..Len(l1Log[k].txs) :
                       /\ l1Log[k].txs[t].hash = txs[u].l1_txhash
                       /\ PaysWithdrawal(l1Log[k].txs[t], w)
    /\ \A k \in 1..Len(l1Log) :
          (l1Log[k].len >= 80 /\ l1Log[k].height # Null) =>
              \A t \in 1..Len(l1Log[k].txs) : \A w \in WdIds :
                  PaysWithdrawal(l1Log[k].txs[t], w) =>
                      /\ PreUid(rTransactions[w]) \in DOMAIN txs
                      /\ txs[PreUid(rTransactions[w])].l1_txhash = l1Log[k].txs[t].hash

\* the output is a P2PKH output that pays the configured target hash
PaysTarget(vout) == isP2PKH(vout.script) /\ vout.script.hash20 = TargetHash

\* C11: for every transaction of a parsed L1 block, if the transaction has a P2PKH
\* output whose 20-byte hash equals the target hash, its recorded uid is the value
\* of such an output; if it has none (its outputs are not P2PKH or pay another
\* hash), no output sets the uid and it stays 0.
C11_ParsedUid ==
    \A t \in 1..Len(parsedTxs) :
        LET vouts == l1Log[Len(l1Log)].txs[t].vouts
        IN  IF \E i \in 1..Len(vouts) : PaysTarget(vouts[i])
            THEN \E i \in 1..Len(vouts) :
                    PaysTarget(vouts[i]) /\ parsedTxs[t].uid = vouts[i].value
            ELSE parsedTxs[t].uid = 0

\* C29: a raw L1 block of at least 80 bytes whose height can be extracted has its
\* l1_headers insert and all its txs upserts applied together or not at all; for a
\* message shorter than 80 bytes, or a block whose height cannot be extracted,
\* nothing is written and the listener goes on to the next message.
C29_BlockAtomic ==
    [][Len(l1Log') = Len(l1Log) + 1 =>
          LET m == l1Log'[Len(l1Log')]
          IN  IF m.len >= 80 /\ m.height # Null
              THEN \/ /\ l1_headers' = insertL1Header(l1_headers, m)
                      /\ txs' = InsertTxs(txs, L1Rows(m, TargetHash, Len(l1Log')))
                   \/ (l1_headers' = l1_headers /\ txs' = txs)
              ELSE /\ l1_headers' = l1_headers
                   /\ txs' = txs
                   /\ l1Pc' = "listening"]_vars

(***************************************************************************)
(* StatCollector: generateStats and the receipt scan                       *)
(* gatherTransactionReceipts.  The node mines the accepted hashes into     *)
(* blocks while the scan runs; wall-clock time advances in ticks.          *)
(***************************************************************************)
MaxStatTx == 2

MaxStatSenders == 2

MaxStatBlocks == 2

MaxTicks == 4

TickMs == 5000

\* the wait for a missing block, in milliseconds
BlockWaitMs == 10000

\* a transaction of somebody else
ForeignHash == 99

StatHashes == 1..MaxStatTx

StatSenders == 1..MaxStatSenders

\* the sender that signed the transaction with this hash
SenderOfHash(h) == ((h - 1) % MaxStatSenders) + 1

\* the hashes of the sender's queue, as handed to the submitter
QueueOf(s) == {h \in StatHashes : SenderOfHash(h) = s}

InitialNonce(s) == s

\* ---- the node
HashesIn(block) == {block[i] : i \in 1..Len(block)}

MinedHashes == UNION {HashesIn(stBlocks[h]) : h \in 1..Len(stBlocks)}

\* eth_getTransactionCount(sender, "latest")
LatestCount(s) == InitialNonce(s) + Cardinality(QueueOf(s) \cap MinedHashes)

\* the sender's transactions waiting in the pool
PendingOf(s) == Cardinality(QueueOf(s) \cap stPool)

\* what the node may report as its number of pending transactions: the accepted
\* hashes still in the pool, and possibly a transaction of somebody else
NodePendingCounts == {Cardinality(stPool), Cardinality(stPool) + 1}

\* provider.getBlockWithTransactions(h): no block while the node has none at h
NoBlock == [found |-> FALSE, transactions |-> <<>>]

getBlockWithTransactions(h) ==
    IF h <= Len(stBlocks) THEN [found |-> TRUE, transactions |-> stBlocks[h]] ELSE NoBlock

\* getPendingTransactionCount: txpool_status, then the pending block's count, then
\* the pending count of the zero address; Null is a method that failed, and a
\* failure of the last method is caught and answered with 0.
getPendingTransactionCount(txpoolStatus, pendingCount, pendingBlockCount) ==
    IF txpoolStatus # Null THEN txpoolStatus
    ELSE IF pendingCount # Null THEN pendingCount
    ELSE IF pendingBlockCount # Null THEN Max(0, pendingBlockCount)
    ELSE 0

\* what one call may return: each of the first two methods fails or reports the
\* node's count, the third fails or reports the count of the zero address
PendingCountAnswers ==
    {getPendingTransactionCount(txpoolStatus, pendingCount, pendingBlockCount) :
        txpoolStatus \in {Null} \cup NodePendingCounts,
        pendingCount \in {Null} \cup NodePendingCounts,
        pendingBlockCount \in {Null, 0}}

\* the completion test at the start of an iteration
scanCompleteIgnorePending(pending, nSucceeded, nHashes) == nSucceeded = nHashes

scanCompleteIgnoreFound(pending, nSucceeded, nHashes) == pending = 0

scanComplete(pending, nSucceeded, nHashes) == pending = 0 /\ nSucceeded = nHashes

\* the txStats pushed for one fetched block; recordedBlock is the value of
\* blockNumber at the push
RECURSIVE BlockStats(_, _, _)
BlockStats(transactions, targetTxSet, recordedBlock) ==
    IF transactions = <<>> THEN <<>>
    ELSE (IF Head(transactions) \in targetTxSet
          THEN <<[txHash |-> Head(transactions), block |-> recordedBlock]>>
          ELSE <<>>)
         \o BlockStats(Tail(transactions), targetTxSet, recordedBlock)

targetTxSet == HashesIn(scTxHashes)

FoundHashes == {succeededTransactions[i].txHash : i \in 1..Len(succeededTransactions)}

InitStats ==
    /\ \E accepted \in SUBSET StatHashes :
          /\ scTxHashes = SortedSeq(accepted)
          /\ stPool = accepted
    /\ scStartBlock = 1
    /\ stBlocks = [h \in 1..(scStartBlock - 1) |-> <<>>]
    /\ stNow = TickMs
    /\ blockNumber = scStartBlock
    /\ succeededTransactions = <<>>
    /\ waitStartTime = 0
    /\ pendingTxCount = 0
    /\ scErrors = FALSE
    /\ scPc = "idle"
    /\ scExit = "none"
    /\ missingSince = 0

IdleStats ==
    /\ scTxHashes = <<>>
    /\ stPool = {}
    /\ scStartBlock = 1
    /\ stBlocks = <<>>
    /\ stNow = TickMs
    /\ blockNumber = 1
    /\ succeededTransactions = <<>>
    /\ waitStartTime = 0
    /\ pendingTxCount = 0
    /\ scErrors = FALSE
    /\ scPc = "idle"
    /\ scExit = "none"
    /\ missingSince = 0

varsStatNode == <<stBlocks, stPool, stNow>>

varsScan == <<blockNumber, succeededTransactions, waitStartTime, pendingTxCount, scErrors,
              scPc, scExit>>

\* generateStats: nothing to do without hashes, else the scan starts
GenerateStats ==
    /\ scPc = "idle"
    /\ scPc' = IF Len(scTxHashes) = 0 THEN "returned" ELSE "top"
    /\ UNCHANGED <<blockNumber, succeededTransactions, waitStartTime, pendingTxCount,
                   scErrors, scExit, missingSince, scTxHashes, scStartBlock>>
    /\ UNCHANGED varsStatNode
    /\ UNCHANGED NotStats

\* start of an iteration: the pending count arrives and the completion test runs
PendingSettles ==
    /\ scPc = "top"
    /\ \E c \in PendingCountAnswers :
          /\ pendingTxCount' = c
          /\ IF scanComplete(c, Len(succeededTransactions), Len(scTxHashes))
             THEN scPc' = "done" /\ scExit' = "complete"
             ELSE scPc' = "fetch" /\ scExit' = scExit
    /\ UNCHANGED <<blockNumber, succeededTransactions, waitStartTime, scErrors, missingSince,
                   scTxHashes, scStartBlock>>
    /\ UNCHANGED varsStatNode
    /\ UNCHANGED NotStats

\* getBlockWithTransactions answers with the block: the counter moves on, then the
\* block's hashes are matched
FetchBlock ==
    /\ scPc = "fetch"
    /\ getBlockWithTransactions(blockNumber).found
    /\ blockNumber' = blockNumber + 1
    /\ succeededTransactions' =
          succeededTransactions
          \o BlockStats(getBlockWithTransactions(blockNumber).transactions, targetTxSet,
                        blockNumber')
    /\ missingSince' = 0
    /\ scPc' = "top"
    /\ UNCHANGED <<waitStartTime, pendingTxCount, scErrors, scExit, scTxHashes, scStartBlock>>
    /\ UNCHANGED varsStatNode
    /\ UNCHANGED NotStats

\* getBlockWithTransactions answers null: start the wait, give up, or try again
FetchNull ==
    /\ scPc = "fetch"
    /\ ~getBlockWithTransactions(blockNumber).found
    /\ missingSince' = IF missingSince = 0 THEN stNow ELSE missingSince
    /\ IF waitStartTime = 0
       THEN waitStartTime' = stNow /\ scPc' = "top" /\ scExit' = scExit
       ELSE IF stNow - waitStartTime > BlockWaitMs
            THEN waitStartTime' = waitStartTime /\ scPc' = "done" /\ scExit' = "timeout"
            ELSE waitStartTime' = waitStartTime /\ scPc' = "top" /\ scExit' = scExit
    /\ UNCHANGED <<blockNumber, succeededTransactions, pendingTxCount, scErrors, scTxHashes,
                   scStartBlock>>
    /\ UNCHANGED varsStatNode
    /\ UNCHANGED NotStats

\* getBlockWithTransactions throws: the message is kept and the loop goes on at
\* the same height
FetchError ==
    /\ scPc = "fetch"
    /\ scErrors' = TRUE
    /\ scPc' = "top"
    /\ UNCHANGED <<blockNumber, succeededTransactions, waitStartTime, pendingTxCount, scExit,
                   missingSince, scTxHashes, scStartBlock>>
    /\ UNCHANGED varsStatNode
    /\ UNCHANGED NotStats

\* the node seals a block with some of the pool and possibly a foreign transaction
StatMine ==
    /\ scPc # "idle"
    /\ Len(stBlocks) < scStartBlock - 1 + MaxStatBlocks
    /\ \E included \in SUBSET stPool, foreign \in SUBSET {ForeignHash} :
          /\ stBlocks' = Append(stBlocks, SortedSeq(included \cup foreign))
          /\ stPool' = stPool \ included
    /\ UNCHANGED <<stNow, missingSince, scTxHashes, scStartBlock>>
    /\ UNCHANGED varsScan
    /\ UNCHANGED NotStats

\* an age of at least MaxTicks ticks is kept as MaxTicks ticks
Older(stamp) == IF stamp = 0 THEN 0 ELSE Max(TickMs, stamp - TickMs)

\* time passes.  The scan only looks at the time elapsed since waitStartTime, so
\* the clock is followed from the moment the wait has started; once it reads
\* MaxTicks ticks the time stamps move back instead, which keeps every
\* difference up to MaxTicks - 1 ticks exact
StatTick ==
    /\ scPc \in {"top", "fetch"}
    /\ waitStartTime # 0
    /\ IF stNow < MaxTicks * TickMs
       THEN /\ stNow' = stNow + TickMs
            /\ UNCHANGED <<waitStartTime, missingSince>>
       ELSE /\ stNow' = stNow
            /\ waitStartTime' = Older(waitStartTime)
            /\ missingSince' = Older(missingSince)
    /\ UNCHANGED <<stBlocks, stPool, scTxHashes, scStartBlock>>
    /\ UNCHANGED <<blockNumber, succeededTransactions, pendingTxCount, scErrors, scPc, scExit>>
    /\ UNCHANGED NotStats

\* the steps of the collector itself: every provider call it awaits settles, by
\* an answer or by an error, so the collector keeps taking steps
ScanStep == GenerateStats \/ PendingSettles \/ FetchBlock \/ FetchNull \/ FetchError

NextStats ==
    \/ GenerateStats
    \/ PendingSettles
    \/ FetchBlock
    \/ FetchNull
    \/ FetchError
    \/ StatMine
    \/ StatTick

\* C12: the scan leaves through the missing-block branch only when the block it
\* is waiting for has been missing for more than 10 seconds, counted from the
\* moment that block was first found missing (a wait for another height, ended
\* by a fetched block, does not count).
C12_TimeoutOnlyAfterCurrentWait ==
    scExit = "timeout" => (missingSince # 0 /\ stNow - missingSince > BlockWaitMs)

\* every hash of H has been recorded
AllFound == targetTxSet \subseteq FoundHashes

\* C13: at the start of an iteration the scan ends through the completion branch
\* exactly when the pending count just read is zero and every hash of H has been
\* found: it never ends that way with a hash unfound or a non-zero count, and it
\* never goes on to fetch a block when the count is zero and all are found.
C13_CompletionBranch ==
    /\ scExit = "complete" => (pendingTxCount = 0 /\ AllFound)
    /\ scPc = "fetch" => ~(pendingTxCount = 0 /\ AllFound)

C13_Witness ==
    /\ scExit = "complete"
    /\ Len(scTxHashes) >= 2
    /\ Len(stBlocks) >= 2

\* C14: every recorded txStats entry carries a hash of H and the height of the
\* block that contains that hash.
C14_RecordedHeight ==
    \A i \in 1..Len(succeededTransactions) :
        LET e == succeededTransactions[i]
        IN  /\ e.txHash \in targetTxSet
            /\ e.block <= Len(stBlocks)
            /\ e.txHash \in HashesIn(stBlocks[e.block])

\* C15: the scan loop eventually exits and generateStats goes on to its summary.
C15_ScanTerminates == <>(scPc \in {"done", "returned"})

\* the sender's whole queue was accepted by the node
AllAccepted(s) == QueueOf(s) \subseteq targetTxSet

\* the node has nothing pending for the sender and counts its whole queue
Settled(s) ==
    /\ PendingOf(s) = 0
    /\ LatestCount(s) = InitialNonce(s) + Cardinality(QueueOf(s))

\* C16 as stated: once the scan has ended, by either break, every sender whose
\* submissions were all accepted has nothing pending and a latest count of its
\* initial nonce plus the length of its queue.
C16_TerminationSettled ==
    scPc = "done" => \A s \in StatSenders : AllAccepted(s) => Settled(s)

\* C16 amended: the same once the scan has ended through the completion branch.
C16_CompletionSettled ==
    scExit = "complete" => \A s \in StatSenders : AllAccepted(s) => Settled(s)

C16_Witness ==
    /\ scExit = "complete"
    /\ \E s \in StatSenders : QueueOf(s) # {} /\ AllAccepted(s)
    /\ \E s \in StatSenders : ~AllAccepted(s)

(***************************************************************************)
(* ClearPendingRuntime.run: waves of accounts; each account reads its      *)
(* pending and latest counts and sends one self-transfer per stuck nonce.  *)
(***************************************************************************)
MaxClearAccounts == 2

MaxCount == 2

MaxLatest == 1

MaxClearConc == 1

\* concurrency || 50
DefaultConcurrency == 50

clearConcurrency(c) == IF c = 0 THEN DefaultConcurrency ELSE c

ClearAccounts == 0..(cpNumAccounts - 1)

\* the loop test of the clearing loop
needsClearingInclusive(nonce, pending) == nonce <= pending

needsClearing(nonce, pending) == nonce < pending

\* the accounts of the wave that starts at index i
Wave(i) == {j \in ClearAccounts : i <= j /\ j < Min(i + clearConcurrency(cpConcurrency), cpNumAccounts)}

InitClear ==
    /\ cpNumAccounts \in 0..MaxClearAccounts
    /\ cpConcurrency \in 0..MaxClearConc
    /\ ndPending \in [ClearAccounts -> 0..MaxCount]
    /\ ndLatest \in [ClearAccounts -> 0..MaxLatest]
    /\ cpI = 0
    /\ cpPc = "idle"
    /\ accPc = [j \in ClearAccounts |-> "waiting"]
    /\ pendingNonce = [j \in ClearAccounts |-> Null]
    /\ latestNonce = [j \in ClearAccounts |-> Null]
    /\ nonceToClear = [j \in ClearAccounts |-> Null]
    /\ cpSent = [j \in ClearAccounts |-> <<>>]
    /\ cpSendFailed = [j \in ClearAccounts |-> FALSE]
    /\ clearedCount = 0

IdleClear ==
    /\ cpNumAccounts = 0
    /\ cpConcurrency = 0
    /\ ndPending = <<>>
    /\ ndLatest = <<>>
    /\ cpI = 0
    /\ cpPc = "idle"
    /\ accPc = <<>>
    /\ pendingNonce = <<>>
    /\ latestNonce = <<>>
    /\ nonceToClear = <<>>
    /\ cpSent = <<>>
    /\ cpSendFailed = <<>>
    /\ clearedCount = 0

varsClearInput == <<cpNumAccounts, cpConcurrency, ndPending, ndLatest>>

\* the accounts of a wave start together: each issues its pending-count query
StartWave(i) ==
    accPc' = [j \in ClearAccounts |-> IF j \in Wave(i) THEN "pending" ELSE accPc[j]]

\* run is called and asks for the fee data
ClearRun ==
    /\ cpPc = "idle"
    /\ cpPc' = "feeData"
    /\ UNCHANGED <<cpI, accPc, pendingNonce, latestNonce, nonceToClear, cpSent, cpSendFailed,
                   clearedCount>>
    /\ UNCHANGED varsClearInput
    /\ UNCHANGED NotClear

\* getFeeData answers: the first wave starts, or there is no account at all
FeeDataSettles ==
    /\ cpPc = "feeData"
    /\ IF 0 < cpNumAccounts
       THEN cpPc' = "wave" /\ StartWave(0)
       ELSE cpPc' = "done" /\ accPc' = accPc
    /\ UNCHANGED <<cpI, pendingNonce, latestNonce, nonceToClear, cpSent, cpSendFailed,
                   clearedCount>>
    /\ UNCHANGED varsClearInput
    /\ UNCHANGED NotClear

\* getFeeData throws: run rejects before any account is looked at
FeeDataFails ==
    /\ cpPc = "feeData"
    /\ cpPc' = "failed"
    /\ UNCHANGED <<cpI, accPc, pendingNonce, latestNonce, nonceToClear, cpSent, cpSendFailed,
                   clearedCount>>
    /\ UNCHANGED varsClearInput
    /\ UNCHANGED NotClear

\* getTransactionCount('pending') answers
PendingRead(j) ==
    /\ accPc[j] = "pending"
    /\ pendingNonce' = [pendingNonce EXCEPT ![j] = ndPending[j]]
    /\ accPc' = [accPc EXCEPT ![j] = "latest"]
    /\ UNCHANGED <<cpI, cpPc, latestNonce, nonceToClear, cpSent, cpSendFailed, clearedCount>>
    /\ UNCHANGED varsClearInput
    /\ UNCHANGED NotClear

\* getTransactionCount('latest') answers: the clearing loop starts with the
\* first send, or the account needs nothing
LatestRead(j) ==
    /\ accPc[j] = "latest"
    /\ latestNonce' = [latestNonce EXCEPT ![j] = ndLatest[j]]
    /\ IF pendingNonce[j] > ndLatest[j] /\ needsClearing(ndLatest[j], pendingNonce[j])
       THEN /\ nonceToClear' = [nonceToClear EXCEPT ![j] = ndLatest[j]]
            /\ accPc' = [accPc EXCEPT ![j] = "sending"]
       ELSE /\ nonceToClear' = nonceToClear
            /\ accPc' = [accPc EXCEPT ![j] = "done"]
    /\ UNCHANGED <<cpI, cpPc, pendingNonce, cpSent, cpSendFailed, clearedCount>>
    /\ UNCHANGED varsClearInput
    /\ UNCHANGED NotClear

\* one of the two count queries throws: the account is left alone
CountQueryFails(j) ==
    /\ accPc[j] \in {"pending", "latest"}
    /\ accPc' = [accPc EXCEPT ![j] = "done"]
    /\ UNCHANGED <<cpI, cpPc, pendingNonce, latestNonce, nonceToClear, cpSent, cpSendFailed,
                   clearedCount>>
    /\ UNCHANGED varsClearInput
    /\ UNCHANGED NotClear

\* sendTransaction answers: the nonce is counted, the loop goes on or ends and
\* adds what was sent to clearedCount
SendSettles(j) ==
    /\ accPc[j] = "sending"
    /\ cpSent' = [cpSent EXCEPT ![j] = Append(@, nonceToClear[j])]
    /\ nonceToClear' = [nonceToClear EXCEPT ![j] = @ + 1]
    /\ IF needsClearing(nonceToClear[j] + 1, pendingNonce[j])
       THEN accPc' = accPc /\ clearedCount' = clearedCount
       ELSE /\ accPc' = [accPc EXCEPT ![j] = "done"]
            /\ clearedCount' = clearedCount + Len(cpSent[j]) + 1
    /\ UNCHANGED <<cpI, cpPc, pendingNonce, latestNonce, cpSendFailed>>
    /\ UNCHANGED varsClearInput
    /\ UNCHANGED NotClear

\* sendTransaction throws and the account's loop goes on with the next nonce
SendFailsGoesOn(j) ==
    /\ accPc[j] = "sending"
    /\ cpSendFailed' = [cpSendFailed EXCEPT ![j] = TRUE]
    /\ nonceToClear' = [nonceToClear EXCEPT ![j] = @ + 1]
    /\ IF needsClearing(nonceToClear[j] + 1, pendingNonce[j])
       THEN accPc' = accPc /\ clearedCount' = clearedCount
       ELSE /\ accPc' = [accPc EXCEPT ![j] = "done"]
            /\ clearedCount' = clearedCount + Len(cpSent[j])
    /\ UNCHANGED <<cpI, cpPc, pendingNonce, latestNonce, cpSent>>
    /\ UNCHANGED varsClearInput
    /\ UNCHANGED NotClear

\* sendTransaction throws: the account's loop breaks
SendFails(j) ==
    /\ accPc[j] = "sending"
    /\ cpSendFailed' = [cpSendFailed EXCEPT ![j] = TRUE]
    /\ accPc' = [accPc EXCEPT ![j] = "done"]
    /\ clearedCount' = clearedCount + Len(cpSent[j])
    /\ UNCHANGED <<cpI, cpPc, pendingNonce, latestNonce, nonceToClear, cpSent>>
    /\ UNCHANGED varsClearInput
    /\ UNCHANGED NotClear

\* Promise.all of the wave resolves: the next wave starts or run ends
WaveSettles ==
    /\ cpPc = "wave"
    /\ \A j \in Wave(cpI) : accPc[j] = "done"
    /\ cpI' = cpI + clearConcurrency(cpConcurrency)
    /\ IF cpI' < cpNumAccounts
       THEN cpPc' = cpPc /\ StartWave(cpI')
       ELSE cpPc' = "done" /\ accPc' = accPc
    /\ UNCHANGED <<pendingNonce, latestNonce, nonceToClear, cpSent, cpSendFailed, clearedCount>>
    /\ UNCHANGED varsClearInput
    /\ UNCHANGED NotClear

PendingReads == \E j \in ClearAccounts : PendingRead(j)

LatestReads == \E j \in ClearAccounts : LatestRead(j)

CountQueriesFail == \E j \in ClearAccounts : CountQueryFails(j)

SendsSettle == \E j \in ClearAccounts : SendSettles(j)

SendsFail == \E j \in ClearAccounts : SendFails(j)

NextClear ==
    \/ ClearRun
    \/ FeeDataSettles
    \/ FeeDataFails
    \/ PendingReads
    \/ LatestReads
    \/ CountQueriesFail
    \/ SendsSettle
    \/ SendsFail
    \/ WaveSettles

\* the nonces from, from + 1, ..., to - 1 in ascending order
NonceRange(from, to) == [k \in 1..(to - from) |-> from + k - 1]

\* C17: an account whose counts were read as pending P and latest L and that is
\* finished has sent, when P > L and no send failed, exactly the self-transfers
\* at nonces L, L+1, ..., P-1 in that order, and none when P <= L.
C17_ClearsStuckNonces ==
    \A j \in ClearAccounts :
        (accPc[j] = "done" /\ pendingNonce[j] # Null /\ latestNonce[j] # Null) =>
            /\ (pendingNonce[j] > latestNonce[j] /\ ~cpSendFailed[j]) =>
                  cpSent[j] = NonceRange(latestNonce[j], pendingNonce[j])
            /\ pendingNonce[j] <= latestNonce[j] => cpSent[j] = <<>>

C17_Witness ==
    /\ cpPc = "done"
    /\ \E j \in ClearAccounts :
          /\ pendingNonce[j] # Null /\ latestNonce[j] # Null
          /\ pendingNonce[j] >= latestNonce[j] + 2
          /\ ~cpSendFailed[j]
          /\ Len(cpSent[j]) = pendingNonce[j] - latestNonce[j]
    /\ \E j \in ClearAccounts :
          /\ pendingNonce[j] # Null /\ latestNonce[j] # Null
          /\ pendingNonce[j] <= latestNonce[j]

\* the nonces sent for account j are latest, latest + 1, ... without a gap
AscendingPrefix(j) ==
    /\ cpSent[j] # <<>> => latestNonce[j] # Null /\ pendingNonce[j] # Null
    /\ cpSent[j] # <<>> =>
          /\ cpSent[j] = NonceRange(latestNonce[j], latestNonce[j] + Len(cpSent[j]))
          /\ latestNonce[j] + Len(cpSent[j]) <= pendingNonce[j]

\* C34: the nonces at which clearing transactions were sent for an account are
\* always latest, latest+1, ..., k within [latest, pending); after a send failed
\* no further clearing transaction is sent for that account; and the run still
\* ends with every account of the range examined.
C34_PrefixAndScanGoesOn ==
    /\ [](\A j \in ClearAccounts : AscendingPrefix(j))
    /\ [](\A j \in ClearAccounts : cpSendFailed[j] => accPc[j] = "done")
    /\ [][\A j \in ClearAccounts : cpSendFailed[j] => cpSent'[j] = cpSent[j]]_vars
    /\ [](cpPc = "done" => \A j \in ClearAccounts : accPc[j] = "done")

\* account 0 sent one of its two clearing transactions and failed at the second;
\* account 1, examined in a later wave, sent all of its own
C34_Witness ==
    /\ cpPc = "done"
    /\ cpNumAccounts >= 2
    /\ clearConcurrency(cpConcurrency) = 1
    /\ cpSendFailed[0]
    /\ Len(cpSent[0]) = 1
    /\ pendingNonce[0] >= latestNonce[0] + 2
    /\ ~cpSendFailed[1]
    /\ cpSent[1] # <<>>
    /\ Len(cpSent[1]) = pendingNonce[1] - latestNonce[1]

\* signTransactionsMultiThreaded(accounts, transactions) with a single worker:
\* entry j carries the transaction at position j and the key it was signed with
SignedList(accounts, transactions) ==
    IF transactions = <<>> THEN <<>>
    ELSE SignSlice(WorkerBatch(accounts, transactions, Len(transactions), 0))

\* C36: every transaction the ERC-20 builder returns is signed with the key of
\* the account named in its from field: the account the signer pairs with list
\* position j, accounts[j mod N], is the sender the builder used for it, also
\* when some constructions failed and were left out of the list.
C36_SignedBySender ==
    ePc = "done" =>
        LET signed == SignedList(eAccounts, eTxs)
        IN  \A j \in 1..Len(signed) : signed[j].signedTx.key = signed[j].signedTx.tx.from

(***************************************************************************)
(* Distributor.distribute: balance scan in waves, choice of the accounts   *)
(* the funder can pay for, funding in waves with locally assigned nonces.  *)
(* Amounts are in thousandths of an ether.                                 *)
(***************************************************************************)
MaxSubAccounts == 3

MaxDistConc == 2

\* the funder's balance ranges over 0, 1/2, ..., MaxFunderHalves/2 ether
MaxFunderHalves == 7

MaxFunderNonce == 1

\* parseEther('1')
ThresholdFinney == 1000

\* this.concurrency && this.concurrency > 0 ? this.concurrency : 50
DistDefaultConcurrency == 50

distConcurrency(c) == IF c > 0 THEN c ELSE DistDefaultConcurrency

\* accountIndices
SubAccounts == 1..requestedSubAccounts

\* ---- the heap of the heap library with its default comparator: two
\* distributeAccount objects compare as equal, so a push appends and a pop
\* returns the root and lets the last element sink along the right-most path
heappush(array, item) == Append(array, item)

RECURSIVE siftup(_, _, _)
siftup(array, pos, newitem) ==
    LET endpos == Len(array)
        childpos == 2 * pos + 1
        rightpos == childpos + 1
        chosen == IF rightpos < endpos THEN rightpos ELSE childpos
    IN  IF childpos < endpos
        THEN siftup([array EXCEPT ![pos + 1] = array[chosen + 1]], chosen, newitem)
        ELSE [array EXCEPT ![pos + 1] = newitem]

heappop(array) ==
    LET lastelt == array[Len(array)]
        rest == SubSeq(array, 1, Len(array) - 1)
    IN  IF rest # <<>>
        THEN [item |-> rest[1], heap |-> siftup(rest, 0, lastelt)]
        ELSE [item |-> lastelt, heap |-> <<>>]

\* ---- findAccountsForDistribution: the results of one wave, in wave order
RECURSIVE ReadyAfterAnyFailure(_, _, _)
ReadyAfterAnyFailure(ready, indexes, outcome) ==
    IF indexes = <<>> THEN ready
    ELSE ReadyAfterAnyFailure(IF outcome[Head(indexes)] \in {"timeout", "error", "enough"}
                              THEN Append(ready, Head(indexes)) ELSE ready,
                              Tail(indexes), outcome)

RECURSIVE ReadyAfter(_, _, _)
ReadyAfter(ready, indexes, outcome) ==
    IF indexes = <<>> THEN ready
    ELSE ReadyAfter(IF outcome[Head(indexes)] \in {"timeout", "enough"}
                    THEN Append(ready, Head(indexes)) ELSE ready,
                    Tail(indexes), outcome)

RECURSIVE ShortAfter(_, _, _)
ShortAfter(heap, indexes, outcome) ==
    IF indexes = <<>> THEN heap
    ELSE ShortAfter(IF outcome[Head(indexes)] = "short"
                    THEN heappush(heap, Head(indexes)) ELSE heap,
                    Tail(indexes), outcome)

\* positions i+1 .. min(i+concurrency, n) of a list of n entries (slice(i, i+concurrency))
WavePositions(i, n, c) == {k \in 1..n : i < k /\ k <= i + distConcurrency(c)}

\* ---- getFundableAccounts
canFundAtLeast(balance, costs) == balance >= costs

canFund(balance, costs) == balance > costs

RECURSIVE FundableLoop(_, _, _, _)
FundableLoop(distributorBalance, costs, initialSet, toFund) ==
    IF canFund(distributorBalance, costs) /\ Len(initialSet) > 0
    THEN LET popped == heappop(initialSet)
         IN  FundableLoop(distributorBalance - costs, costs, popped.heap,
                          Append(toFund, popped.item))
    ELSE [accountsToFund |-> toFund, initialSet |-> initialSet]

\* the accounts to fund, and what is left of the heap
getFundableAccounts(costs, initialSet, balance) == FundableLoop(balance, costs, initialSet, <<>>)

\* ---- fundAccounts: the results of a wave that count as funded
RECURSIVE AllOf(_, _, _)
AllOf(positions, accounts, state) ==
    IF positions = <<>> THEN <<>>
    ELSE <<[index |-> Head(positions) - 1, mnemonicIndex |-> accounts[Head(positions)]]>>
         \o AllOf(Tail(positions), accounts, state)

RECURSIVE SuccessfulOf(_, _, _)
SuccessfulOf(positions, accounts, state) ==
    IF positions = <<>> THEN <<>>
    ELSE (IF state[Head(positions)] = "ok"
          THEN <<[index |-> Head(positions) - 1, mnemonicIndex |-> accounts[Head(positions)]]>>
          ELSE <<>>)
         \o SuccessfulOf(Tail(positions), accounts, state)

\* the mnemonic indexes of the successes, largest position first
RECURSIVE ReversedMnemonicIndexes(_)
ReversedMnemonicIndexes(items) ==
    IF items = <<>> THEN <<>>
    ELSE LET m == CHOOSE k \in 1..Len(items) :
                     \A l \in 1..Len(items) : items[k].index >= items[l].index
         IN  <<items[m].mnemonicIndex>>
             \o ReversedMnemonicIndexes([l \in 1..(Len(items) - 1) |->
                                            IF l < m THEN items[l] ELSE items[l + 1]])

\* successfulIndexes.sort((a, b) => a.index - b.index), then the mnemonic indexes
RECURSIVE SortedMnemonicIndexes(_)
SortedMnemonicIndexes(items) ==
    IF items = <<>> THEN <<>>
    ELSE LET m == CHOOSE k \in 1..Len(items) :
                     \A l \in 1..Len(items) : items[k].index <= items[l].index
         IN  <<items[m].mnemonicIndex>>
             \o SortedMnemonicIndexes([l \in 1..(Len(items) - 1) |->
                                          IF l < m THEN items[l] ELSE items[l + 1]])

InitDist ==
    /\ requestedSubAccounts \in 1..MaxSubAccounts
    /\ dConcurrency \in 0..MaxDistConc
    /\ balanceOutcome \in [SubAccounts -> {"enough", "short", "timeout", "error"}]
    /\ funderBalance \in {h * (ThresholdFinney \div 2) : h \in 0..MaxFunderHalves}
    /\ funderNonce \in 0..MaxFunderNonce
    /\ dPc = "idle"
    /\ dError = ""
    /\ dI = 0
    /\ readyMnemonicIndexes = <<>>
    /\ shortAddresses = <<>>
    /\ accountsToFund = <<>>
    /\ currentNonce = 0
    /\ transfer = <<>>
    /\ assignedNonce = <<>>
    /\ successfulIndexes = <<>>

IdleDist ==
    /\ requestedSubAccounts = 0
    /\ dConcurrency = 0
    /\ balanceOutcome = <<>>
    /\ funderBalance = 0
    /\ funderNonce = 0
    /\ dPc = "idle"
    /\ dError = ""
    /\ dI = 0
    /\ readyMnemonicIndexes = <<>>
    /\ shortAddresses = <<>>
    /\ accountsToFund = <<>>
    /\ currentNonce = 0
    /\ transfer = <<>>
    /\ assignedNonce = <<>>
    /\ successfulIndexes = <<>>

varsDistInput == <<requestedSubAccounts, dConcurrency, balanceOutcome, funderBalance, funderNonce>>

varsFunding == <<accountsToFund, currentNonce, transfer, assignedNonce, successfulIndexes>>

\* distribute is called: findAccountsForDistribution sends the first wave of
\* balance queries
Distribute ==
    /\ dPc = "idle"
    /\ dPc' = "balances"
    /\ UNCHANGED <<dError, dI, readyMnemonicIndexes, shortAddresses>>
    /\ UNCHANGED varsFunding
    /\ UNCHANGED varsDistInput
    /\ UNCHANGED NotDist

\* the balance queries of a wave have all settled: their results are handled in
\* wave order; after the last wave distribute returns at once when nothing is
\* short (with every requested index when nothing is ready either), else it
\* asks for the funder's balance
BalanceWaveSettles ==
    /\ dPc = "balances"
    /\ LET indexes == SortedSeq(WavePositions(dI, requestedSubAccounts, dConcurrency))
           ready == ReadyAfter(readyMnemonicIndexes, indexes, balanceOutcome)
           short == ShortAfter(shortAddresses, indexes, balanceOutcome)
           next == dI + distConcurrency(dConcurrency)
       IN  /\ dI' = IF next < requestedSubAccounts THEN next ELSE 0
           /\ shortAddresses' = short
           /\ IF next < requestedSubAccounts
              THEN dPc' = dPc /\ readyMnemonicIndexes' = ready
              ELSE IF Len(short) = 0
                   THEN /\ dPc' = "returned"
                        /\ readyMnemonicIndexes' =
                              IF Len(ready) = 0
                              THEN [k \in 1..requestedSubAccounts |-> k]
                              ELSE ready
                   ELSE dPc' = "funderBalance" /\ readyMnemonicIndexes' = ready
    /\ UNCHANGED dError
    /\ UNCHANGED varsFunding
    /\ UNCHANGED varsDistInput
    /\ UNCHANGED NotDist

\* every transfer of a wave sent with the nonce counter itself
nonceOfWave(nonce, batchIndex) == nonce

\* const assignedNonce = currentNonce + batchIndex
nonceOfTransfer(nonce, batchIndex) == nonce + batchIndex

\* the accounts of the funding wave that starts at position i send their
\* transfers, each with the nonce currentNonce + batchIndex
StartFundingWave(i, nonce) ==
    LET wave == WavePositions(i, Len(accountsToFund'), dConcurrency)
    IN  /\ transfer' = [k \in 1..Len(accountsToFund') |->
                            IF k \in wave THEN "sending"
                            ELSE IF k \in DOMAIN transfer THEN transfer[k] ELSE "waiting"]
        /\ assignedNonce' = [k \in 1..Len(accountsToFund') |->
                                 IF k \in wave THEN nonceOfTransfer(nonce, k - i - 1)
                                 ELSE IF k \in DOMAIN assignedNonce THEN assignedNonce[k]
                                 ELSE Null]

\* the funder's balance arrives: the fundable accounts are popped; without any,
\* errNotEnoughFunds; else fundAccounts asks for the funder's transaction count
FunderBalanceSettles ==
    /\ dPc = "funderBalance"
    /\ LET chosen == getFundableAccounts(ThresholdFinney, shortAddresses, funderBalance)
       IN  /\ accountsToFund' = chosen.accountsToFund
           /\ shortAddresses' = chosen.initialSet
           /\ transfer' = [k \in 1..Len(chosen.accountsToFund) |-> "waiting"]
           /\ assignedNonce' = [k \in 1..Len(chosen.accountsToFund) |-> Null]
           /\ IF Len(chosen.accountsToFund) = 0
              THEN dPc' = "failed" /\ dError' = "errNotEnoughFunds"
              ELSE dPc' = "nonce" /\ dError' = dError
    /\ UNCHANGED <<dI, readyMnemonicIndexes, currentNonce, successfulIndexes>>
    /\ UNCHANGED varsDistInput
    /\ UNCHANGED NotDist

\* a read of the funder (balance or transaction count) fails or times out:
\* distribute rejects with that error
FunderQueryFails ==
    /\ dPc \in {"funderBalance", "nonce"}
    /\ dPc' = "failed"
    /\ dError' = "funder query"
    /\ UNCHANGED <<dI, readyMnemonicIndexes, shortAddresses>>
    /\ UNCHANGED varsFunding
    /\ UNCHANGED varsDistInput
    /\ UNCHANGED NotDist

\* the funder's transaction count arrives: the first funding wave starts
NonceSettles ==
    /\ dPc = "nonce"
    /\ currentNonce' = funderNonce
    /\ accountsToFund' = accountsToFund
    /\ StartFundingWave(0, funderNonce)
    /\ dPc' = "funding"
    /\ UNCHANGED <<dError, dI, readyMnemonicIndexes, shortAddresses, successfulIndexes>>
    /\ UNCHANGED varsDistInput
    /\ UNCHANGED NotDist

\* sendTransaction answers: the transfer waits for its confirmation
SendAccepted(k) ==
    /\ dPc = "funding"
    /\ transfer[k] = "sending"
    /\ transfer' = [transfer EXCEPT ![k] = "confirming"]
    /\ UNCHANGED <<accountsToFund, currentNonce, assignedNonce, successfulIndexes>>
    /\ UNCHANGED <<dPc, dError, dI, readyMnemonicIndexes, shortAddresses>>
    /\ UNCHANGED varsDistInput
    /\ UNCHANGED NotDist

\* sendTransaction throws or times out, or the confirmation times out: the
\* transfer's result is a failure
TransferFails(k) ==
    /\ dPc = "funding"
    /\ transfer[k] \in {"sending", "confirming"}
    /\ transfer' = [transfer EXCEPT ![k] = "failed"]
    /\ UNCHANGED <<accountsToFund, currentNonce, assignedNonce, successfulIndexes>>
    /\ UNCHANGED <<dPc, dError, dI, readyMnemonicIndexes, shortAddresses>>
    /\ UNCHANGED varsDistInput
    /\ UNCHANGED NotDist

\* tx.wait() answers: the transfer's result is a success
TransferConfirmed(k) ==
    /\ dPc = "funding"
    /\ transfer[k] = "confirming"
    /\ transfer' = [transfer EXCEPT ![k] = "ok"]
    /\ UNCHANGED <<accountsToFund, currentNonce, assignedNonce, successfulIndexes>>
    /\ UNCHANGED <<dPc, dError, dI, readyMnemonicIndexes, shortAddresses>>
    /\ UNCHANGED varsDistInput
    /\ UNCHANGED NotDist

\* every transfer of the wave has a result: the nonce moves on by the wave's
\* size and the successes are kept; then the next wave starts, or the sorted
\* successes join the ready list and distribute returns
FundingWaveSettles ==
    /\ dPc = "funding"
    /\ LET wave == WavePositions(dI, Len(accountsToFund), dConcurrency)
           next == dI + distConcurrency(dConcurrency)
           successes == successfulIndexes
                        \o SuccessfulOf(SortedSeq(wave), accountsToFund, transfer)
       IN  /\ \A k \in wave : transfer[k] \in {"ok", "failed"}
           /\ currentNonce' = currentNonce + Cardinality(wave)
           /\ successfulIndexes' = successes
           /\ accountsToFund' = accountsToFund
           /\ IF next < Len(accountsToFund)
              THEN /\ dI' = next
                   /\ StartFundingWave(next, currentNonce')
                   /\ UNCHANGED <<dPc, readyMnemonicIndexes>>
              ELSE /\ dI' = dI
                   /\ dPc' = "returned"
                   /\ readyMnemonicIndexes' =
                         readyMnemonicIndexes \o SortedMnemonicIndexes(successes)
                   /\ UNCHANGED <<transfer, assignedNonce>>
    /\ UNCHANGED <<dError, shortAddresses>>
    /\ UNCHANGED varsDistInput
    /\ UNCHANGED NotDist

FundingPositions == 1..Len(accountsToFund)

SendsAccepted == \E k \in FundingPositions : SendAccepted(k)

TransfersFail == \E k \in FundingPositions : TransferFails(k)

TransfersConfirmed == \E k \in FundingPositions : TransferConfirmed(k)

NextDist ==
    \/ Distribute
    \/ BalanceWaveSettles
    \/ FunderBalanceSettles
    \/ FunderQueryFails
    \/ NonceSettles
    \/ SendsAccepted
    \/ TransfersFail
    \/ TransfersConfirmed
    \/ FundingWaveSettles

ReadySet == {readyMnemonicIndexes[k] : k \in 1..Len(readyMnemonicIndexes)}

\* a transfer has been sent to the account at position k of accountsToFund
Attempted(k) == transfer[k] # "waiting"

SomeTransferSent == \E k \in FundingPositions : Attempted(k)

\* the balance scan is over and found accounts that need funds
NeedsFunding == dPc \notin {"idle", "balances"} /\ (Len(shortAddresses) + Len(accountsToFund) > 0)

BalanceRead == dPc \in {"nonce", "funding", "returned"} \/ dError = "errNotEnoughFunds"

\* C18: once the funder's balance has been read with an account in need of funds,
\* a balance not greater than the per-account amount means distribute has failed
\* with errNotEnoughFunds and no transfer was sent, and a greater balance means
\* errNotEnoughFunds is not raised.
C18_NotEnoughFunds ==
    (NeedsFunding /\ BalanceRead) =>
        /\ funderBalance <= ThresholdFinney =>
              (dPc = "failed" /\ dError = "errNotEnoughFunds" /\ ~SomeTransferSent)
        /\ funderBalance > ThresholdFinney => dError # "errNotEnoughFunds"

C18_Witness ==
    /\ dError = "errNotEnoughFunds"
    /\ funderBalance = ThresholdFinney
    /\ Len(shortAddresses) >= 2
    /\ Len(readyMnemonicIndexes) >= 1

\* the mnemonic indexes a transfer was sent to
FundedAccounts == {accountsToFund[k] : k \in {l \in FundingPositions : Attempted(l)}}

\* C19: a failed transfer does not make distribute fail, and when distribute
\* returns after funding, every account of the fundable list has had its
\* transfer sent, in its own wave or a later one; the accounts whose transfer
\* failed are not in the returned ready set and those whose transfer succeeded are.
C19_FailedTransferDropped ==
    /\ dPc = "failed" => ~SomeTransferSent
    /\ (dPc = "returned" /\ Len(accountsToFund) > 0) =>
          \A k \in FundingPositions :
              /\ transfer[k] \in {"ok", "failed"}
              /\ transfer[k] = "failed" => accountsToFund[k] \notin ReadySet
              /\ transfer[k] = "ok" => accountsToFund[k] \in ReadySet

C19_Witness ==
    /\ dPc = "returned"
    /\ dConcurrency = 1
    /\ Len(accountsToFund) >= 2
    /\ transfer[1] = "failed"
    /\ transfer[2] = "ok"

\* every balance query failed with an error that is not a timeout
EveryQueryErrored == \A a \in SubAccounts : balanceOutcome[a] = "error"

\* C20 as stated: in every finished run an account whose balance query timed out
\* is in the ready set and was not funded, and an account whose balance query
\* failed otherwise was not funded and is not in the ready set.
C20_ErroredSkipped ==
    dPc = "returned" =>
        \A a \in SubAccounts :
            /\ balanceOutcome[a] = "timeout" => (a \in ReadySet /\ a \notin FundedAccounts)
            /\ balanceOutcome[a] = "error" => (a \notin ReadySet /\ a \notin FundedAccounts)

\* C20 amended: the same, except in the run where every balance query failed
\* with an error other than a timeout: then nothing is funded and the ready
\* set is every requested index 1..R.
C20_ErroredSkippedUnlessAllErrored ==
    dPc = "returned" =>
        /\ \A a \in SubAccounts :
              /\ balanceOutcome[a] = "timeout" => (a \in ReadySet /\ a \notin FundedAccounts)
              /\ balanceOutcome[a] = "error" =>
                    /\ a \notin FundedAccounts
                    /\ ~EveryQueryErrored => a \notin ReadySet
        /\ EveryQueryErrored =>
              /\ readyMnemonicIndexes = [k \in 1..requestedSubAccounts |-> k]
              /\ ~SomeTransferSent

C20_Witness ==
    /\ dPc = "returned"
    /\ \E a \in SubAccounts : balanceOutcome[a] = "timeout"
    /\ \E a \in SubAccounts : balanceOutcome[a] = "error"
    /\ \E k \in FundingPositions : transfer[k] = "ok"

\* C26: the transfer to the k-th account of the fundable list (0-based) is sent
\* with nonce base + k, base being the funder's transaction count read before the
\* first wave, so the nonces of a run are pairwise distinct and the wave that
\* starts at position dI uses base + dI ... base + dI + |wave| - 1; the nonce
\* counter has advanced by the size of every settled wave, whatever the results
\* of its transfers.
C26_NonceByPosition ==
    dPc \in {"funding", "returned"} =>
        /\ \A k \in 1..Len(accountsToFund) :
              /\ (transfer[k] # "waiting") = (assignedNonce[k] # Null)
              /\ assignedNonce[k] # Null => assignedNonce[k] = funderNonce + (k - 1)
        /\ \A k1, k2 \in 1..Len(accountsToFund) :
              (k1 # k2 /\ assignedNonce[k1] # Null) => assignedNonce[k1] # assignedNonce[k2]
        /\ dPc = "funding" =>
              /\ currentNonce = funderNonce + dI
              /\ \A k \in 1..Len(accountsToFund) :
                    (assignedNonce[k] # Null) =
                        (k <= Min(dI + distConcurrency(dConcurrency), Len(accountsToFund)))
        /\ dPc = "returned" /\ Len(accountsToFund) > 0 =>
              /\ currentNonce = funderNonce + Len(accountsToFund)
              /\ \A k \in 1..Len(accountsToFund) : assignedNonce[k] # Null

\* the second wave is in flight after a first wave of two in which a transfer failed
C26_Witness ==
    /\ dPc = "funding"
    /\ dConcurrency = 2
    /\ Len(accountsToFund) = 3
    /\ funderNonce = 1
    /\ transfer[1] = "failed"
    /\ transfer[3] = "sending"
    /\ assignedNonce[3] = 3
    /\ currentNonce = 3

\* the position of a funded account in the fundable list
PositionOf(a) == CHOOSE k \in FundingPositions : accountsToFund[k] = a

\* C27 as stated: the ready list distribute returns is in ascending order of the
\* requested index, with no index twice.
C27_ReadySorted ==
    dPc = "returned" =>
        \A k1, k2 \in 1..Len(readyMnemonicIndexes) :
            k1 < k2 => readyMnemonicIndexes[k1] < readyMnemonicIndexes[k2]

\* C27 amended: the ready list distribute returns has no index twice and is made
\* of two runs: the accounts the balance scan found ready, in ascending requested
\* index, followed by the accounts whose transfer succeeded, in the order of the
\* fundable list.
C27_ReadyTwoRuns ==
    dPc = "returned" =>
        /\ \A k1, k2 \in 1..Len(readyMnemonicIndexes) :
              k1 # k2 => readyMnemonicIndexes[k1] # readyMnemonicIndexes[k2]
        /\ \E n \in 0..Len(readyMnemonicIndexes) :
              /\ \A k \in 1..n : readyMnemonicIndexes[k] \notin FundedAccounts
              /\ \A k1, k2 \in 1..n :
                    k1 < k2 => readyMnemonicIndexes[k1] < readyMnemonicIndexes[k2]
              /\ \A k \in (n + 1)..Len(readyMnemonicIndexes) :
                    /\ readyMnemonicIndexes[k] \in FundedAccounts
                    /\ transfer[PositionOf(readyMnemonicIndexes[k])] = "ok"
              /\ \A k1, k2 \in (n + 1)..Len(readyMnemonicIndexes) :
                    k1 < k2 => PositionOf(readyMnemonicIndexes[k1])
                                   < PositionOf(readyMnemonicIndexes[k2])

\* account 2 had funds; accounts 1 and 3 were funded and follow it
C27_Witness ==
    /\ dPc = "returned"
    /\ readyMnemonicIndexes = <<2, 1, 3>>
    /\ accountsToFund = <<1, 3>>

\* the order in which the heap hands out its accounts
RECURSIVE PopOrder(_)
PopOrder(heap) ==
    IF heap = <<>> THEN <<>>
    ELSE <<heappop(heap).item>> \o PopOrder(heappop(heap).heap)

\* getFundableAccounts has run in this step
SelectionMade == dPc = "funderBalance" /\ dPc' # dPc /\ dError' # "funder query"

\* C37: the accounts getFundableAccounts selects are a prefix of the heap's pop
\* order; when any is selected, the sum of their amounts (the per-account cost
\* each) is strictly less than the funder balance read for the selection; an
\* account is taken only while the remaining balance is greater than the
\* per-account cost, and the selection stops as soon as it is not, or the heap
\* is empty.
C37_FundablePrefix ==
    [][SelectionMade =>
        LET n == Len(accountsToFund')
            order == PopOrder(shortAddresses)
        IN  /\ n <= Len(order)
            /\ accountsToFund' = SubSeq(order, 1, n)
            /\ n > 0 => n * ThresholdFinney < funderBalance
            /\ \A k \in 0..(n - 1) : funderBalance - k * ThresholdFinney > ThresholdFinney
            /\ (funderBalance - n * ThresholdFinney <= ThresholdFinney \/ n = Len(order))]_vars

\* two of three short accounts selected, in pop order, with 2.5 ether
C37_Witness ==
    /\ dPc = "nonce"
    /\ funderBalance = 2500
    /\ accountsToFund = <<1, 2>>
    /\ shortAddresses = <<3>>

(***************************************************************************)
(* The value field of WithdrawalRuntime.ConstructTransactions, for two     *)
(* iterations of one call of the loop: the indexes are drawn from the      *)
(* first iterations and from the iterations one sender stride later.       *)
(***************************************************************************)
MaxWvAccounts == 11

MaxWvIndex == 2

WvIndexes == (0..MaxWvIndex) \cup {SenderStride + k : k \in 0..MaxWvIndex}

InitWv ==
    /\ wvAccounts \in 1..MaxWvAccounts
    /\ wvI \in WvIndexes
    /\ wvJ \in WvIndexes
    /\ wvI < wvJ
    /\ wvValues = <<>>

IdleWv ==
    /\ wvAccounts = 1
    /\ wvI = 0
    /\ wvJ = 0
    /\ wvValues = <<>>

\* the loop of a call with numTx > wvJ has pushed transactions wvI and wvJ
ConstructValues ==
    /\ wvValues = <<>>
    /\ wvValues' = <<withdrawalValue(wvI % wvAccounts, wvI),
                     withdrawalValue(wvJ % wvAccounts, wvJ)>>
    /\ UNCHANGED <<wvAccounts, wvI, wvJ>>
    /\ UNCHANGED NotWv

NextWv == ConstructValues

\* C21: two distinct transactions of one call carry different value fields and
\* different uids (value - 0.1 ether) / 1e10.
C21_DistinctValues ==
    wvValues # <<>> =>
        /\ wvValues[1] # wvValues[2]
        /\ PreUid(wvValues[1]) # PreUid(wvValues[2])

(***************************************************************************)
(* Signer.getSenderAccounts as Engine.Run calls it, counting the nonce     *)
(* queries in flight: the wallets are queried in waves cut by the wave     *)
(* loop, each wave awaited with Promise.all.                               *)
(***************************************************************************)
MaxNwConcurrency == 2

MaxNwWallets == 2

\* a few wallets, or one wave of wallets and a few more
NwWalletCounts == (0..MaxNwWallets) \cup {NonceBatchSize + k : k \in 0..MaxNwWallets}

InitNw ==
    /\ nwConcurrency \in 1..MaxNwConcurrency
    /\ nwWallets \in NwWalletCounts
    /\ nwI = 0
    /\ nwPending = 0
    /\ nwPc = "start"

IdleNw ==
    /\ nwConcurrency = 1
    /\ nwWallets = 0
    /\ nwI = 0
    /\ nwPending = 0
    /\ nwPc = "idle"

\* the wave that starts at i: every query of wallets.slice(i, i + batchSize) is sent
NwStartWave(i) ==
    IF i < nwWallets
    THEN nwPc' = "wave" /\ nwPending' = Cardinality(NonceWave(i, nwWallets))
    ELSE nwPc' = "done" /\ nwPending' = 0

\* Engine.Run calls getSenderAccounts(ctx.accountIndexes, ctx.numTxs): the wallets
\* are created and the first wave is sent
NwGetSenderAccounts ==
    /\ nwPc = "start"
    /\ NwStartWave(0)
    /\ UNCHANGED <<nwConcurrency, nwWallets, nwI>>
    /\ UNCHANGED NotNw

\* one getTransactionCount of the wave resolves or rejects
NwQuerySettles ==
    /\ nwPc = "wave"
    /\ nwPending > 0
    /\ nwPending' = nwPending - 1
    /\ UNCHANGED <<nwConcurrency, nwWallets, nwI, nwPc>>
    /\ UNCHANGED NotNw

\* Promise.all of the wave resolves: a 10 ms delay if wallets are left
NwWaveSettles ==
    /\ nwPc = "wave"
    /\ nwPending = 0
    /\ nwPc' = IF nwI + NonceBatchSize < nwWallets THEN "delay" ELSE "done"
    /\ nwI' = IF nwI + NonceBatchSize < nwWallets THEN nwI ELSE nwI + NonceBatchSize
    /\ UNCHANGED <<nwConcurrency, nwWallets, nwPending>>
    /\ UNCHANGED NotNw

\* the delay is over: i += batchSize and the next wave is sent
NwDelayElapses ==
    /\ nwPc = "delay"
    /\ nwI' = nwI + NonceBatchSize
    /\ NwStartWave(nwI')
    /\ UNCHANGED <<nwConcurrency, nwWallets>>
    /\ UNCHANGED NotNw

NextNw ==
    \/ NwGetSenderAccounts
    \/ NwQuerySettles
    \/ NwWaveSettles
    \/ NwDelayElapses

\* a wave is sent in this step
NwWaveSent == nwPc' = "wave" /\ (nwPc # "wave" \/ nwI' # nwI)

\* C28 as stated: at no time are more than `concurrency` nonce queries in flight.
C28_CappedByConcurrency == nwPending <= nwConcurrency

\* C28 amended: at no time are more than 50 nonce queries in flight, whatever the
\* concurrency setting, and a wave of nonce queries is sent only when no query of
\* an earlier wave is still in flight.
C28_WavesOfFifty ==
    /\ [](nwPending <= NonceBatchSize)
    /\ [][NwWaveSent => nwPending = 0]_vars

\* a second wave in flight for a run with more than 50 wallets and concurrency 1
C28_Witness ==
    /\ nwPc = "wave"
    /\ nwConcurrency = 1
    /\ nwWallets = NonceBatchSize + 2
    /\ nwI = NonceBatchSize
    /\ nwPending = 2

(***************************************************************************)
(* run(): fund distribution, token distribution, the scan start height and *)
(* Engine.Run (sender accounts, construction, signing, submission).        *)
(***************************************************************************)
MaxRunAccounts == 2

MaxRunTxs == 2

MaxRunBlocks == 3

RunTxs == 1..runNumTxs

\* the awaits of run() and Engine.Run in program order, with the height read last
phaseAfterHeightLast(pc, mode) ==
    CASE pc = "distribute" -> IF mode = "ERC20" THEN "tokens" ELSE "accounts"
      [] pc = "tokens" -> "accounts"
      [] pc = "accounts" -> "construct"
      [] pc = "construct" -> "sign"
      [] pc = "sign" -> "submit"
      [] pc = "submit" -> "height"
      [] pc = "height" -> "stats"
      [] OTHER -> pc

\* the awaits of run() and Engine.Run in program order
phaseAfter(pc, mode) ==
    CASE pc = "distribute" -> IF mode = "ERC20" THEN "tokens" ELSE "height"
      [] pc = "tokens" -> "height"
      [] pc = "height" -> "accounts"
      [] pc = "accounts" -> "construct"
      [] pc = "construct" -> "sign"
      [] pc = "sign" -> "submit"
      [] pc = "submit" -> "stats"
      [] OTHER -> pc

InitRun ==
    /\ runMode \in {"EOA", "ERC20"}
    /\ runNumTxs \in 1..MaxRunTxs
    /\ runPc = "distribute"
    /\ accountIndexes = <<>>
    /\ tokenReadyIndexes = <<>>
    /\ engineAccounts = <<>>
    /\ startBlock = Null
    /\ runHead = 0
    /\ runConstructed = {}
    /\ runSigned = {}
    /\ runSubmitted = {}
    /\ runMined = [t \in RunTxs |-> 0]

IdleRun ==
    /\ runMode = "EOA"
    /\ runNumTxs = 0
    /\ runPc = "idle"
    /\ accountIndexes = <<>>
    /\ tokenReadyIndexes = <<>>
    /\ engineAccounts = <<>>
    /\ startBlock = Null
    /\ runHead = 0
    /\ runConstructed = {}
    /\ runSigned = {}
    /\ runSubmitted = {}
    /\ runMined = <<>>

\* the indexes of idx that are in ok, in the order of idx
KeepIndexes(idx, ok) ==
    LET Kept(i) == i \in ok
    IN  SelectSeq(idx, Kept)

\* const accountIndexes = await distributor.distribute()
RunDistribute ==
    /\ runPc = "distribute"
    /\ \E k \in 1..MaxRunAccounts : accountIndexes' = [i \in 1..k |-> i]
    /\ runPc' = phaseAfter(runPc, runMode)
    /\ UNCHANGED <<runMode, runNumTxs, tokenReadyIndexes, engineAccounts, startBlock, runHead,
                   runConstructed, runSigned, runSubmitted, runMined>>
    /\ UNCHANGED NotRun

\* await tokenDistributor.distributeTokens(): the distributor keeps the indexes
\* whose transfer succeeded in its own readyMnemonicIndexes; run() does not use
\* the returned list
RunDistributeTokens ==
    /\ runPc = "tokens"
    /\ \E ok \in SUBSET {accountIndexes[i] : i \in 1..Len(accountIndexes)} :
          tokenReadyIndexes' = KeepIndexes(accountIndexes, ok)
    /\ runPc' = phaseAfter(runPc, runMode)
    /\ UNCHANGED <<runMode, runNumTxs, accountIndexes, engineAccounts, startBlock, runHead,
                   runConstructed, runSigned, runSubmitted, runMined>>
    /\ UNCHANGED NotRun

\* getFundableAccounts throws errNotEnoughFunds: the run ends
RunTokensNotEnoughFunds ==
    /\ runPc = "tokens"
    /\ runPc' = "failed"
    /\ UNCHANGED <<runMode, runNumTxs, accountIndexes, tokenReadyIndexes, engineAccounts,
                   startBlock, runHead, runConstructed, runSigned, runSubmitted, runMined>>
    /\ UNCHANGED NotRun

\* const currentBlock = await provider.getBlockNumber(); let startBlock = currentBlock
RunGetBlockNumber ==
    /\ runPc = "height"
    /\ startBlock' = runHead
    /\ runPc' = phaseAfter(runPc, runMode)
    /\ UNCHANGED <<runMode, runNumTxs, accountIndexes, tokenReadyIndexes, engineAccounts, runHead,
                   runConstructed, runSigned, runSubmitted, runMined>>
    /\ UNCHANGED NotRun

\* Engine.Run: signer.getSenderAccounts(ctx.accountIndexes, ctx.numTxs)
RunGetSenderAccounts ==
    /\ runPc = "accounts"
    /\ engineAccounts' = accountIndexes
    /\ runPc' = phaseAfter(runPc, runMode)
    /\ UNCHANGED <<runMode, runNumTxs, accountIndexes, tokenReadyIndexes, startBlock, runHead,
                   runConstructed, runSigned, runSubmitted, runMined>>
    /\ UNCHANGED NotRun

\* runtime.ConstructTransactions: one transaction; the promise resolves after the last
RunConstruct ==
    /\ runPc = "construct"
    /\ \E t \in RunTxs \ runConstructed :
          /\ runConstructed' = runConstructed \cup {t}
          /\ runPc' = IF runConstructed' = RunTxs THEN phaseAfter(runPc, runMode) ELSE runPc
    /\ UNCHANGED <<runMode, runNumTxs, accountIndexes, tokenReadyIndexes, engineAccounts,
                   startBlock, runHead, runSigned, runSubmitted, runMined>>
    /\ UNCHANGED NotRun

\* signer.signTransactionsMultiThreaded: a worker signs one transaction; the
\* promise resolves after the last
RunSign ==
    /\ runPc = "sign"
    /\ \E t \in runConstructed \ runSigned :
          /\ runSigned' = runSigned \cup {t}
          /\ runPc' = IF runSigned' = RunTxs THEN phaseAfter(runPc, runMode) ELSE runPc
    /\ UNCHANGED <<runMode, runNumTxs, accountIndexes, tokenReadyIndexes, engineAccounts,
                   startBlock, runHead, runConstructed, runSubmitted, runMined>>
    /\ UNCHANGED NotRun

\* Batcher.batchTransactions: one signed transaction reaches the node; the
\* promise resolves after the last
RunSubmit ==
    /\ runPc = "submit"
    /\ \E t \in runSigned \ runSubmitted :
          /\ runSubmitted' = runSubmitted \cup {t}
          /\ runPc' = IF runSubmitted' = RunTxs THEN phaseAfter(runPc, runMode) ELSE runPc
    /\ UNCHANGED <<runMode, runNumTxs, accountIndexes, tokenReadyIndexes, engineAccounts,
                   startBlock, runHead, runConstructed, runSigned, runMined>>
    /\ UNCHANGED NotRun

\* the node mines a block with some of the transactions it holds
RunMine ==
    /\ runHead < MaxRunBlocks
    /\ runPc \notin {"idle", "failed"}
    /\ runHead' = runHead + 1
    /\ \E S \in SUBSET {t \in runSubmitted : runMined[t] = 0} :
          runMined' = [t \in RunTxs |-> IF t \in S THEN runHead + 1 ELSE runMined[t]]
    /\ UNCHANGED <<runMode, runNumTxs, runPc, accountIndexes, tokenReadyIndexes, engineAccounts,
                   startBlock, runConstructed, runSigned, runSubmitted>>
    /\ UNCHANGED NotRun

NextRun ==
    \/ RunDistribute
    \/ RunDistributeTokens
    \/ RunTokensNotEnoughFunds
    \/ RunGetBlockNumber
    \/ RunGetSenderAccounts
    \/ RunConstruct
    \/ RunSign
    \/ RunSubmit
    \/ RunMine

\* C32: in ERC-20 mode every sender account Engine.Run uses is an account whose
\* token top-up transfer succeeded.
C32_SendersTokenFunded ==
    runMode = "ERC20" =>
        \A i \in 1..Len(engineAccounts) :
            \E j \in 1..Len(tokenReadyIndexes) : tokenReadyIndexes[j] = engineAccounts[i]

\* C33: fund distribution completes before construction starts, every
\* transaction is constructed before any is signed and signed before any is
\* submitted; the scan start height is read before the first submission, and no
\* submitted transaction is mined in a block below it.
C33_PhasesOrdered ==
    /\ runConstructed # {} => (runPc \notin {"distribute", "tokens"} /\ accountIndexes # <<>>)
    /\ runSigned # {} => runConstructed = RunTxs
    /\ runSubmitted # {} => (runSigned = RunTxs /\ startBlock # Null)
    /\ \A t \in runSubmitted : runMined[t] # 0 => runMined[t] >= startBlock

\* every transaction of the run is mined, above a scan start height that is not 0
C33_Witness ==
    /\ runPc = "stats"
    /\ runNumTxs = MaxRunTxs
    /\ startBlock = 1
    /\ \A t \in RunTxs : runMined[t] > startBlock
    /\ \E t \in RunTxs : runMined[t] # runMined[1]

(***************************************************************************)
(* The specifications.                                                     *)
(***************************************************************************)
InitSpecBatches == InitGb /\ IdleBuild /\ IdleErc /\ IdleNonce /\ IdleSign /\ IdleSubmit /\ IdleRecon /\ IdleStats /\ IdleClear /\ IdleDist /\ IdleWv /\ IdleNw /\ IdleRun

InitSpecBuild == InitBuild /\ IdleGb /\ IdleErc /\ IdleNonce /\ IdleSign /\ IdleSubmit /\ IdleRecon /\ IdleStats /\ IdleClear /\ IdleDist /\ IdleWv /\ IdleNw /\ IdleRun

InitSpecClear == InitClear /\ IdleGb /\ IdleBuild /\ IdleErc /\ IdleNonce /\ IdleSign /\ IdleSubmit /\ IdleRecon /\ IdleStats /\ IdleDist /\ IdleWv /\ IdleNw /\ IdleRun

InitSpecDist == InitDist /\ IdleGb /\ IdleBuild /\ IdleErc /\ IdleNonce /\ IdleSign /\ IdleSubmit /\ IdleRecon /\ IdleStats /\ IdleClear /\ IdleWv /\ IdleNw /\ IdleRun

InitSpecErc == InitErc /\ IdleGb /\ IdleBuild /\ IdleNonce /\ IdleSign /\ IdleSubmit /\ IdleRecon /\ IdleStats /\ IdleClear /\ IdleDist /\ IdleWv /\ IdleNw /\ IdleRun

InitSpecL2 == InitL2 /\ IdleGb /\ IdleBuild /\ IdleErc /\ IdleNonce /\ IdleSign /\ IdleSubmit /\ IdleStats /\ IdleClear /\ IdleDist /\ IdleWv /\ IdleNw /\ IdleRun

InitSpecNonce == InitNonce /\ IdleGb /\ IdleBuild /\ IdleErc /\ IdleSign /\ IdleSubmit /\ IdleRecon /\ IdleStats /\ IdleClear /\ IdleDist /\ IdleWv /\ IdleNw /\ IdleRun

InitSpecNw == InitNw /\ IdleGb /\ IdleBuild /\ IdleErc /\ IdleNonce /\ IdleSign /\ IdleSubmit /\ IdleRecon /\ IdleStats /\ IdleClear /\ IdleDist /\ IdleWv /\ IdleRun

InitSpecRecon == InitRecon /\ IdleGb /\ IdleBuild /\ IdleErc /\ IdleNonce /\ IdleSign /\ IdleSubmit /\ IdleStats /\ IdleClear /\ IdleDist /\ IdleWv /\ IdleNw /\ IdleRun

InitSpecRun == InitRun /\ IdleGb /\ IdleBuild /\ IdleErc /\ IdleNonce /\ IdleSign /\ IdleSubmit /\ IdleRecon /\ IdleStats /\ IdleClear /\ IdleDist /\ IdleWv /\ IdleNw

InitSpecSign == InitSign /\ IdleGb /\ IdleBuild /\ IdleErc /\ IdleNonce /\ IdleSubmit /\ IdleRecon /\ IdleStats /\ IdleClear /\ IdleDist /\ IdleWv /\ IdleNw /\ IdleRun

InitSpecStats == InitStats /\ IdleGb /\ IdleBuild /\ IdleErc /\ IdleNonce /\ IdleSign /\ IdleSubmit /\ IdleRecon /\ IdleClear /\ IdleDist /\ IdleWv /\ IdleNw /\ IdleRun

InitSpecSubmit == InitSubmit /\ IdleGb /\ IdleBuild /\ IdleErc /\ IdleNonce /\ IdleSign /\ IdleRecon /\ IdleStats /\ IdleClear /\ IdleDist /\ IdleWv /\ IdleNw /\ IdleRun

InitSpecWv == InitWv /\ IdleGb /\ IdleBuild /\ IdleErc /\ IdleNonce /\ IdleSign /\ IdleSubmit /\ IdleRecon /\ IdleStats /\ IdleClear /\ IdleDist /\ IdleNw /\ IdleRun

SpecBatches == InitSpecBatches /\ [][NextBatches]_vars

SpecBuild == InitSpecBuild /\ [][NextBuild]_vars

SpecClear == InitSpecClear /\ [][NextClear]_vars

SpecDist == InitSpecDist /\ [][NextDist]_vars

SpecErc == InitSpecErc /\ [][NextErc]_vars

SpecL2 == InitSpecL2 /\ [][NextL2]_vars

SpecL2Fair == InitSpecL2 /\ [][NextL2]_vars /\ WF_vars(PumpSteps)

SpecNonce == InitSpecNonce /\ [][NextNonce]_vars

SpecNw == InitSpecNw /\ [][NextNw]_vars

SpecRecon == InitSpecRecon /\ [][NextRecon]_vars

SpecRun == InitSpecRun /\ [][NextRun]_vars

SpecSign == InitSpecSign /\ [][NextSign]_vars

SpecStats == InitSpecStats /\ [][NextStats]_vars

SpecStatsFair == InitSpecStats /\ [][NextStats]_vars /\ WF_vars(ScanStep) /\ WF_vars(StatTick)

SpecSubmit == InitSpecSubmit /\ [][NextSubmit]_vars

SpecWv == InitSpecWv /\ [][NextWv]_vars

====
